---- MODULE Spec2Model ----
(***************************************************************************)
(* Verification model of the compliance governor of the auto inquiry form  *)
(* submitter (backend/app/core/compliance.py): robots.txt interpretation,  *)
(* the per-domain site policy cache, the exponential backoff and the       *)
(* compliance check.                                                       *)
(*                                                                         *)
(* Durations are integers in milliseconds (1.0s = 1000); points in time    *)
(* are integers in seconds.  An Optional value is a sequence of length 0   *)
(* (None) or 1.                                                            *)
(***************************************************************************)
EXTENDS Integers, Sequences, FiniteSets, TLC

VARIABLES
    \* one call of ComplianceManager._analyze_site_policy
    an_base,            \* base_url argument
    an_robots,          \* what requests.get(robots_txt_url) does
    an_main,            \* what requests.get(base_url) does
    an_policy,          \* Optional SitePolicy: the value returned
    \* the clock and the random source
    now,                \* time.time(), in seconds
    ticks,              \* how often the clock has advanced
    rnd,                \* what the next random.random() returns, in 1/1000
    \* one BackoffStrategy object and the last call made on it
    bs,                 \* base_delay, max_delay, multiplier, failure_timestamps
    bs_ret,             \* [op, value, time, draw] of the last call
    \* the ComplianceManager instance
    compliance_level,
    site_policies,      \* dict: domain -> SitePolicy
    backoff_strategies, \* dict: domain -> BackoffStrategy
    fetch_log,          \* the policy fetches made so far: base_url, robots, main
    mgr_ret,            \* the last call on the manager and what it returned
    svc_call,           \* a call of a function of the form services: op and arguments
    svc_ret,            \* what that call returned, None before it returns
    sub_args,           \* _execute_submission: form, template_data, take_screenshot, dry_run
    sub_pc,             \* _execute_submission: the state of the attempt
    sub_idx,            \* _fill_form_fields: the index of the next field
    sub_log,            \* the actions the attempt performed on the page so far
    sub_result,         \* the outcome the attempt returned, None while it runs
    \* the BrowserPoolManager and the scopes of get_page
    bp_lock,            \* the run that holds self._lock, 0 for none
    bp_browsers,        \* per browser of the pool: its list 'contexts'
    bp_runs,            \* per run: where it is in get_page, its locals, its handles
    \* the submissions table and the Celery queue of submit_form_task
    db_submissions,     \* the Submission rows
    task_queue,         \* the invocations of submit_form_task that are scheduled
    \* one call of FormDetector.detect_forms
    det_call,           \* url, and what the pages of the site do
    det_pc,             \* where the call is
    det_idx,            \* the index of the contact link the loop is at
    det_log,            \* checks, navigations and recorded results so far
    det_company,        \* the Company row
    det_forms,          \* the list 'forms'
    \* detection runs in one event loop that record on the shared manager
    cr_pc               \* per run: where it is

policyVars == <<an_base, an_robots, an_main, an_policy>>

clockVars == <<now, ticks, rnd>>

backoffVars == <<bs, bs_ret>>

mgrVars == <<compliance_level, site_policies, backoff_strategies, fetch_log, mgr_ret>>

serviceVars == <<svc_call, svc_ret>>

submitVars == <<sub_args, sub_pc, sub_idx, sub_log, sub_result>>

poolVars == <<bp_lock, bp_browsers, bp_runs>>

taskVars == <<db_submissions, task_queue>>

detectVars == <<det_call, det_pc, det_idx, det_log, det_company, det_forms>>

runVars == <<cr_pc>>

flowVars == <<poolVars, taskVars, detectVars, runVars>>

vars == <<an_base, an_robots, an_main, an_policy, now, ticks, rnd, bs, bs_ret,
          compliance_level, site_policies, backoff_strategies, fetch_log, mgr_ret,
          svc_call, svc_ret, sub_args, sub_pc, sub_idx, sub_log, sub_result,
          bp_lock, bp_browsers, bp_runs, db_submissions, task_queue,
          det_call, det_pc, det_idx, det_log, det_company, det_forms, cr_pc>>

None == <<>>

Some(v) == <<v>>

\* float("nan"): a reserved integer that no duration takes
NaN == -999999

\* a > b on floats: FALSE as soon as one side is NaN
Gt(a, b) == a # NaN /\ b # NaN /\ a > b

\* Python's max(a, b) and min(a, b): the first argument unless the second
\* one compares larger (smaller)
Max(a, b) == IF Gt(b, a) THEN b ELSE a

Min(a, b) == IF Gt(a, b) THEN b ELSE a

(***************************************************************************)
(* Bounds of the explored inputs.                                          *)
(***************************************************************************)
MaxLines == 4

MaxTicks == 3

MaxFailures == 3

\* the same two bounds for the runs of the whole manager
MaxMgrTicks == 2

MaxMgrFailures == 1

\* the controls of a form and the forms of a page
MaxControls == 2

MaxForms == 2

\* the links of a page
MaxLinks == 2

\* the fields of a stored form
MaxFields == 2

\* the detection runs that are in progress at the same time
MaxRuns == 3

\* the contact links a root page yields
MaxCandidates == 2

\* the browsers of the pool
MaxBrowsers == 2

\* the runs that use the pool at the same time
MaxUsers == 2

\* the invocations of submit_form_task
MaxTasks == 4

(***************************************************************************)
(* Text of robots.txt.  A line is kept as the directive name as written    *)
(* before the first ':' and the stripped text after it; a comment line has *)
(* the name "#".                                                           *)
(***************************************************************************)
Lower(s) ==
    CASE s = "User-agent" -> "user-agent"
      [] s = "Disallow" -> "disallow"
      [] s = "Allow" -> "allow"
      [] s = "Crawl-delay" -> "crawl-delay"
      [] s = "AutoInquiryBot" -> "autoinquirybot"
      [] s = "Googlebot" -> "googlebot"
      [] OTHER -> s

\* float(text): None stands for ValueError
Float(s) ==
    CASE s = "5" -> Some(5000)
      [] s = "2" -> Some(2000)
      [] s = "0.5" -> Some(500)
      [] s = "nan" -> Some(NaN)
      [] OTHER -> None

RobotsLines ==
    {[name |-> "User-agent", value |-> a] : a \in {"*", "AutoInquiryBot", "Googlebot"}}
    \cup {[name |-> "Disallow", value |-> p] : p \in {"/", "/admin"}}
    \cup {[name |-> "Allow", value |-> "/"]}
    \cup {[name |-> "Crawl-delay", value |-> v] : v \in {"5", "0.5", "nan", "abc"}}
    \cup {[name |-> "#", value |-> ""]}

RobotsTexts == UNION {[1..n -> RobotsLines] : n \in 0..MaxLines}

ParseInit ==
    [current_user_agent |-> None,
     allows_crawling |-> TRUE,
     crawl_delay |-> 1000,
     specific_bot_crawl_delay |-> None]

\* ParseLine that reads "Disallow" in the wildcard block only
ParseLine_WildcardOnly(st, line) ==
    IF line.name = "" \/ line.name = "#"
    THEN st
    ELSE IF Lower(line.name) = "user-agent"
    THEN [st EXCEPT !.current_user_agent = Some(Lower(line.value))]
    ELSE IF st.current_user_agent = Some("autoinquirybot")
    THEN IF Lower(line.name) = "disallow"
         THEN st
         ELSE IF Lower(line.name) = "crawl-delay"
         THEN IF Float(line.value) # None
              THEN [st EXCEPT !.specific_bot_crawl_delay = Float(line.value)]
              ELSE st
         ELSE st
    ELSE IF st.current_user_agent = Some("*") /\ st.specific_bot_crawl_delay = None
    THEN IF Lower(line.name) = "disallow"
         THEN IF line.value = "/"
              THEN [st EXCEPT !.allows_crawling = FALSE]
              ELSE st
         ELSE IF Lower(line.name) = "crawl-delay"
         THEN IF Float(line.value) # None
              THEN [st EXCEPT !.crawl_delay = Max(st.crawl_delay, Float(line.value)[1])]
              ELSE st
         ELSE st
    ELSE st

\* the body of the loop over the lines
ParseLine(st, line) ==
    IF line.name = "" \/ line.name = "#"
    THEN st
    ELSE IF Lower(line.name) = "user-agent"
    THEN [st EXCEPT !.current_user_agent = Some(Lower(line.value))]
    ELSE IF st.current_user_agent = Some("autoinquirybot")
    THEN IF Lower(line.name) = "disallow"
         THEN IF line.value = "/"
              THEN [st EXCEPT !.allows_crawling = FALSE]
              ELSE st
         ELSE IF Lower(line.name) = "crawl-delay"
         THEN IF Float(line.value) # None
              THEN [st EXCEPT !.specific_bot_crawl_delay = Float(line.value)]
              ELSE st
         ELSE st
    ELSE IF st.current_user_agent = Some("*") /\ st.specific_bot_crawl_delay = None
    THEN IF Lower(line.name) = "disallow"
         THEN IF line.value = "/"
              THEN [st EXCEPT !.allows_crawling = FALSE]
              ELSE st
         ELSE IF Lower(line.name) = "crawl-delay"
         THEN IF Float(line.value) # None
              THEN [st EXCEPT !.crawl_delay = Max(st.crawl_delay, Float(line.value)[1])]
              ELSE st
         ELSE st
    ELSE st

RECURSIVE ParseLines(_, _, _)
ParseLines(lines, i, st) ==
    IF i > Len(lines) THEN st
    ELSE ParseLines(lines, i + 1, ParseLine(st, lines[i]))

\* _parse_robots_txt: <<allows_crawling, crawl_delay>>
parse_robots_txt(content) ==
    IF content = <<>>
    THEN <<TRUE, 1000>>
    ELSE LET st == ParseLines(content, 1, ParseInit)
         IN  <<st.allows_crawling,
               IF st.specific_bot_crawl_delay # None
               THEN st.specific_bot_crawl_delay[1]
               ELSE st.crawl_delay>>

(***************************************************************************)
(* URLs and HTTP responses.  A URL is its scheme, network location and     *)
(* path; urlparse/urljoin act on these parts.                              *)
(***************************************************************************)
Url(scheme, netloc, path) == [scheme |-> scheme, netloc |-> netloc, path |-> path]

\* the key of a cache that is kept by URL instead of by origin
DomainOf_WholeUrl(url) == url

\* f"{parsed_url.scheme}://{parsed_url.netloc}"
DomainOf(url) == Url(url.scheme, url.netloc, "")

\* urljoin(base, ref) for a reference that is an absolute path
urljoin(base, ref) == Url(base.scheme, base.netloc, ref)

Response(raises, status, text) == [raises |-> raises, status_code |-> status, text |-> text]

\* the links of the root page: visible text and href
TosKeywords == {"terms of service", "terms of use", "user agreement"}

\* link.get_text().lower().strip()
LinkText(s) == IF s = "Terms of Service" THEN "terms of service" ELSE s

MainPages ==
    {<<>>,
     <<[text |-> "Contact", href |-> "/contact"]>>,
     <<[text |-> "Contact", href |-> "/contact"],
       [text |-> "Terms of Service", href |-> "/terms"],
       [text |-> "user agreement", href |-> "/agreement"]>>}

RECURSIVE FirstTosLink(_, _)
FirstTosLink(links, i) ==
    IF i > Len(links) THEN None
    ELSE IF LinkText(links[i].text) \in TosKeywords THEN Some(links[i].href)
    ELSE FirstTosLink(links, i + 1)

\* TermsOfServiceDetector.detect_terms_of_service_url
detect_terms_of_service_url(base_url, html_content) ==
    LET href == FirstTosLink(html_content, 1)
    IN  IF href = None THEN None ELSE Some(urljoin(base_url, href[1]))

SitePolicy(robots, tos, allows, delay) ==
    [robots_txt_url |-> robots,
     terms_of_service_url |-> tos,
     allows_crawling |-> allows,
     requires_delay |-> delay]

\* ComplianceManager._analyze_site_policy
analyze_site_policy(base_url, robots, main) ==
    LET robots_txt_url == urljoin(base_url, "/robots.txt")
    IN  IF robots.raises \/ main.raises
        THEN SitePolicy(robots_txt_url, None, TRUE, 2000)
        ELSE LET robots_content == IF robots.status_code = 200 THEN robots.text ELSE <<>>
                 main_content == IF main.status_code = 200 THEN main.text ELSE <<>>
                 tos_url == detect_terms_of_service_url(base_url, main_content)
                 parsed == parse_robots_txt(robots_content)
             IN  SitePolicy(robots_txt_url, tos_url, parsed[1], Max(parsed[2], 1000))

(***************************************************************************)
(* SpecPolicy: one call of _analyze_site_policy on every robots.txt of at  *)
(* most MaxLines lines and every outcome of the two fetches.               *)
(***************************************************************************)
(***************************************************************************)
(* BackoffStrategy.  Timestamps are seconds; the jitter draw r stands for  *)
(* random.random() = r / 1000.                                             *)
(***************************************************************************)
RECURSIVE Pow(_, _)
Pow(m, n) == IF n = 0 THEN 1 ELSE m * Pow(m, n - 1)

BackoffStrategy(base_delay, max_delay, multiplier) ==
    [base_delay |-> base_delay,
     max_delay |-> max_delay,
     multiplier |-> multiplier,
     failure_timestamps |-> <<>>]

\* get_delay counting the failures of the last 24 hours instead of the last hour
get_delay_DayWindow(b, t, r) ==
    IF b.failure_timestamps = <<>>
    THEN b.base_delay
    ELSE LET recent_failures == SelectSeq(b.failure_timestamps, LAMBDA ts : t - ts < 86400)
         IN  IF Len(recent_failures) = 0
             THEN b.base_delay
             ELSE LET delay == Min(b.base_delay * Pow(b.multiplier, Len(recent_failures)),
                                   b.max_delay)
                      jitter == (delay * 2 * (r - 500)) \div 10000
                  IN  Max(100, delay + jitter)

\* get_delay without the max_delay ceiling
get_delay_NoCap(b, t, r) ==
    IF b.failure_timestamps = <<>>
    THEN b.base_delay
    ELSE LET recent_failures == SelectSeq(b.failure_timestamps, LAMBDA ts : t - ts < 3600)
         IN  IF Len(recent_failures) = 0
             THEN b.base_delay
             ELSE LET delay == b.base_delay * Pow(b.multiplier, Len(recent_failures))
                      jitter == (delay * 2 * (r - 500)) \div 10000
                  IN  Max(100, delay + jitter)

\* BackoffStrategy.get_delay at time t with jitter draw r
get_delay(b, t, r) ==
    IF b.failure_timestamps = <<>>
    THEN b.base_delay
    ELSE LET recent_failures == SelectSeq(b.failure_timestamps, LAMBDA ts : t - ts < 3600)
         IN  IF Len(recent_failures) = 0
             THEN b.base_delay
             ELSE LET delay == Min(b.base_delay * Pow(b.multiplier, Len(recent_failures)),
                                   b.max_delay)
                      \* delay * 0.2 * (random.random() - 0.5)
                      jitter == (delay * 2 * (r - 500)) \div 10000
                  IN  Max(100, delay + jitter)

\* BackoffStrategy.record_failure at time t
record_failure(b, t) ==
    LET appended == Append(b.failure_timestamps, t)
        cutoff_time == t - 86400
    IN  [b EXCEPT !.failure_timestamps = SelectSeq(appended, LAMBDA ts : ts > cutoff_time)]

\* record_success that resets the failure history
record_success_ClearAll(b, t) == [b EXCEPT !.failure_timestamps = <<>>]

\* BackoffStrategy.record_success at time t
record_success(b, t) ==
    LET cutoff_time == t - 600
    IN  [b EXCEPT !.failure_timestamps =
                      SelectSeq(b.failure_timestamps, LAMBDA ts : ts > cutoff_time)]

\* get_delay calls random.random() only when a failure of the last hour exists
DrawsJitter(b, t) == \E i \in DOMAIN b.failure_timestamps : t - b.failure_timestamps[i] < 3600

(***************************************************************************)
(* TermsOfServiceDetector.analyze_terms_of_service.  The text of the page  *)
(* is the set of the words it contains; "keyword in content" is membership.*)
(***************************************************************************)
AUTOMATION_RESTRICTION_KEYWORDS ==
    {"bot", "crawler", "scraping", "automated", "robot", "machine", "programmatic", "script"}

PROHIBITION_KEYWORDS == {"prohibited", "forbidden", "not allowed", "ban", "restrict"}

ContactKeywords == {"contact", "support", "inquiry"}

ComplianceCheck(allowed, warnings, errors, recommendations, delay_seconds) ==
    [allowed |-> allowed,
     warnings |-> warnings,
     errors |-> errors,
     recommendations |-> recommendations,
     delay_seconds |-> delay_seconds]

analyze_terms_of_service(response) ==
    IF response.raises
    THEN ComplianceCheck(TRUE, <<"terms of service analysis error">>, <<>>, <<>>, 0)
    ELSE IF response.status_code # 200
    THEN ComplianceCheck(TRUE, <<"terms of service not retrievable">>, <<>>, <<>>, 0)
    ELSE LET content == response.text
             automation_restrictions == AUTOMATION_RESTRICTION_KEYWORDS \cap content
             has_prohibition == PROHIBITION_KEYWORDS \cap content # {}
             has_contact == ContactKeywords \cap content # {}
             errors == IF automation_restrictions # {} /\ has_prohibition
                       THEN <<"terms of service may prohibit automation">>
                       ELSE <<>>
             warnings == IF automation_restrictions # {} /\ ~has_prohibition
                         THEN <<"terms of service mention automation">>
                         ELSE <<>>
             recommendations ==
                 (IF automation_restrictions # {} /\ has_prohibition
                  THEN <<"consider manual access or prior permission">>
                  ELSE <<>>)
                 \o (IF ~has_contact THEN <<"no contact information found">> ELSE <<>>)
         IN  ComplianceCheck(Len(errors) = 0, warnings, errors, recommendations, 0)

(***************************************************************************)
(* ComplianceManager.check_compliance after the policy lookup: policy is   *)
(* the SitePolicy, backoff_delay what backoff.get_delay() returned, tos    *)
(* what the fetch of the terms of service does (read only when the policy  *)
(* has a terms_of_service_url).                                            *)
(***************************************************************************)
\* "if not policy.allows_crawling": <<errors, warnings>> with a strict level
\* that is never recognised
robots_txt_check_WarnOnly(level, policy) ==
    IF ~policy.allows_crawling
    THEN <<<<>>, <<"possibly restricted by robots.txt">>>>
    ELSE <<<<>>, <<>>>>

\* "if not policy.allows_crawling": <<errors, warnings>> with the error
\* at every level
robots_txt_check_ErrorAlways(level, policy) ==
    IF ~policy.allows_crawling
    THEN <<<<"robots.txt forbids access for this user agent">>, <<>>>>
    ELSE <<<<>>, <<>>>>

\* "if not policy.allows_crawling": <<errors, warnings>>
robots_txt_check(level, policy) ==
    IF ~policy.allows_crawling
    THEN IF level = "strict"
         THEN <<<<"robots.txt forbids access for this user agent">>, <<>>>>
         ELSE <<<<>>, <<"possibly restricted by robots.txt">>>>
    ELSE <<<<>>, <<>>>>

\* the delay without the backoff of the domain
check_delay_PolicyOnly(policy, backoff_delay) == policy.requires_delay

\* "delay_seconds = max(delay_seconds, backoff_delay)"
check_delay(policy, backoff_delay) == Max(policy.requires_delay, backoff_delay)

\* the final decision with moderate blocking on the first error
final_allowed_ModerateAnyError(level, errors) ==
    IF level = "strict" /\ errors # <<>> THEN FALSE
    ELSE IF level = "moderate" /\ Len(errors) > 0 THEN FALSE
    ELSE TRUE

\* the final decision
final_allowed(level, errors) ==
    IF level = "strict" /\ errors # <<>> THEN FALSE
    ELSE IF level = "moderate" /\ Len(errors) > 2 THEN FALSE
    ELSE TRUE

check_compliance(level, policy, backoff_delay, tos) ==
    LET robots == robots_txt_check(level, policy)
        delay_seconds == check_delay(policy, backoff_delay)
        has_tos == policy.terms_of_service_url # None
        tos_check == analyze_terms_of_service(tos)
        warnings ==
            robots[2]
            \o (IF has_tos THEN tos_check.warnings
                ELSE IF level = "strict" THEN <<"terms of service not found">> ELSE <<>>)
        errors ==
            robots[1]
            \o (IF has_tos
                THEN tos_check.errors
                     \o (IF ~tos_check.allowed /\ level = "strict"
                         THEN <<"terms of service restrict automated access">>
                         ELSE <<>>)
                ELSE <<>>)
        recommendations ==
            (IF has_tos THEN tos_check.recommendations ELSE <<>>)
            \o (IF Gt(delay_seconds, 5000) THEN <<"avoid frequent access">> ELSE <<>>)
    IN  ComplianceCheck(final_allowed(level, errors), warnings, errors, recommendations,
                        delay_seconds)

(***************************************************************************)
(* The two dictionaries of the manager.                                    *)
(***************************************************************************)
Put(dict, key, value) == (key :> value) @@ dict

\* get_site_policy: the dictionary after the call
get_site_policy(policies, url, robots, main) ==
    LET domain == DomainOf(url)
    IN  IF domain \notin DOMAIN policies
        THEN Put(policies, domain, analyze_site_policy(domain, robots, main))
        ELSE policies

\* get_site_policy fetches robots.txt and the root page
Fetches(policies, url) == DomainOf(url) \notin DOMAIN policies

\* "if domain not in self.backoff_strategies: ... = BackoffStrategy()"
backoff_for(backoffs, domain) ==
    IF domain \notin DOMAIN backoffs
    THEN Put(backoffs, domain, BackoffStrategy(1000, 300000, 2))
    ELSE backoffs

\* record_request_result that starts from a new BackoffStrategy each time
record_request_result_Fresh(backoffs, url, success, t) ==
    LET fresh == Put(backoffs, DomainOf(url), BackoffStrategy(1000, 300000, 2))
    IN  [fresh EXCEPT ![DomainOf(url)] = IF success THEN record_success(@, t)
                                         ELSE record_failure(@, t)]

\* the dictionary backoff_strategies after record_request_result(url, success)
record_request_result(backoffs, url, success, t) ==
    [backoff_for(backoffs, DomainOf(url)) EXCEPT
        ![DomainOf(url)] = IF success THEN record_success(@, t) ELSE record_failure(@, t)]

\* values of random.random(), in 1/1000: [0, 1)
JitterDraws == {0, 995}

\* time that passes between two calls, in seconds
TickSteps == {300, 600, 3000, 82800}

\* time that passes between two calls on the manager, in seconds
MgrTickSteps == {600, 3000}

Ret(op, value) == [op |-> op, value |-> value, time |-> now, draw |-> rnd]

\* the constructor's defaults and the arguments the tests construct it with
BackoffConfigs ==
    {BackoffStrategy(1000, 300000, 2),
     BackoffStrategy(1000, 5000, 2),
     BackoffStrategy(1000, 5000, 10)}

Tick(limit, steps) ==
    /\ ticks < limit
    /\ \E d \in steps : now' = now + d
    /\ ticks' = ticks + 1
    /\ UNCHANGED rnd

\* no call of a form service is in progress
ServiceIdle == svc_call = [op |-> "none"] /\ svc_ret = None

\* no submission attempt is in progress
SubmitIdle ==
    /\ sub_args = [op |-> "none"]
    /\ sub_pc = "IDLE"
    /\ sub_idx = 0
    /\ sub_log = <<>>
    /\ sub_result = None

\* the pool is not used
PoolIdle == bp_lock = 0 /\ bp_browsers = <<>> /\ bp_runs = <<>>

\* no submission exists and no task is scheduled
TaskIdle == db_submissions = <<>> /\ task_queue = <<>>

\* no detection call is in progress
DetectIdle ==
    /\ det_call = [op |-> "none"]
    /\ det_pc = "IDLE"
    /\ det_idx = 0
    /\ det_log = <<>>
    /\ det_company = [form_detection_status |-> "not_started", detected_forms_count |-> 0]
    /\ det_forms = <<>>

\* no run records on the manager
RunIdle == cr_pc = <<>>

FlowIdle == PoolIdle /\ TaskIdle /\ DetectIdle /\ RunIdle

PolicyIdle ==
    /\ an_base = Url("https", "example.com", "")
    /\ an_robots = Response(FALSE, 404, <<>>)
    /\ an_main = Response(FALSE, 404, <<>>)
    /\ an_policy = None

MgrIdle ==
    /\ compliance_level = "moderate"
    /\ site_policies = <<>>
    /\ backoff_strategies = <<>>
    /\ fetch_log = <<>>
    /\ mgr_ret = [op |-> "init"]

ClockIdle == now = 0 /\ ticks = 0 /\ rnd = 0

InitClock == now = 0 /\ ticks = 0 /\ rnd \in JitterDraws

BackoffIdle ==
    /\ bs = BackoffStrategy(1000, 300000, 2)
    /\ bs_ret = [op |-> "init", value |-> 0, time |-> 0, draw |-> 0]

InitBackoff ==
    /\ bs \in BackoffConfigs
    /\ bs_ret = [op |-> "init", value |-> 0, time |-> 0, draw |-> 0]

BS_GetDelay ==
    /\ bs_ret' = Ret("get_delay", get_delay(bs, now, rnd))
    /\ IF DrawsJitter(bs, now) THEN rnd' \in JitterDraws ELSE rnd' = rnd
    /\ UNCHANGED <<bs, now, ticks>>

BS_RecordFailure ==
    /\ Len(bs.failure_timestamps) < MaxFailures
    /\ bs' = record_failure(bs, now)
    /\ bs_ret' = Ret("record_failure", 0)
    /\ UNCHANGED clockVars

BS_RecordSuccess ==
    /\ bs' = record_success(bs, now)
    /\ bs_ret' = Ret("record_success", 0)
    /\ UNCHANGED clockVars

NextBackoff ==
    \/ BS_GetDelay /\ UNCHANGED <<policyVars, mgrVars, serviceVars, submitVars, flowVars>>
    \/ BS_RecordFailure /\ UNCHANGED <<policyVars, mgrVars, serviceVars, submitVars, flowVars>>
    \/ BS_RecordSuccess /\ UNCHANGED <<policyVars, mgrVars, serviceVars, submitVars, flowVars>>
    \/ Tick(MaxTicks, TickSteps) /\ UNCHANGED <<policyVars, backoffVars, mgrVars, serviceVars, submitVars, flowVars>>

InitBackoffStrategy ==
    PolicyIdle /\ InitClock /\ InitBackoff /\ MgrIdle /\ ServiceIdle /\ SubmitIdle /\ FlowIdle

SpecBackoff == InitBackoffStrategy /\ [][NextBackoff]_vars

RobotsResponses ==
    {Response(TRUE, 0, <<>>)}
    \cup {Response(FALSE, 404, <<>>)}
    \cup {Response(FALSE, 200, t) : t \in RobotsTexts}

MainResponses ==
    {Response(TRUE, 0, <<>>)}
    \cup {Response(FALSE, 404, <<>>)}
    \cup {Response(FALSE, 200, t) : t \in MainPages}

InitPolicy ==
    /\ an_base = Url("https", "example.com", "")
    /\ an_robots \in RobotsResponses
    /\ an_main \in MainResponses
    /\ an_policy = None
    /\ ClockIdle
    /\ BackoffIdle
    /\ MgrIdle
    /\ ServiceIdle
    /\ SubmitIdle /\ FlowIdle

AnalyzeSitePolicy ==
    /\ an_policy = None
    /\ an_policy' = Some(analyze_site_policy(an_base, an_robots, an_main))
    /\ UNCHANGED <<an_base, an_robots, an_main>>

NextPolicy == AnalyzeSitePolicy /\ UNCHANGED <<clockVars, backoffVars, mgrVars, serviceVars, submitVars, flowVars>>

SpecPolicy == InitPolicy /\ [][NextPolicy]_vars

(***************************************************************************)
(* The ComplianceManager and the network that answers its fetches.         *)
(***************************************************************************)
Levels == {"strict", "moderate", "permissive"}

Urls ==
    {Url("https", "example.com", "/"),
     Url("https", "example.com", "/contact"),
     Url("http", "example.com", "/")}

UA(a) == [name |-> "User-agent", value |-> a]

MgrRobotsResponses ==
    {Response(TRUE, 0, <<>>),
     Response(FALSE, 200, <<UA("*"), [name |-> "Disallow", value |-> "/"]>>),
     Response(FALSE, 200, <<UA("AutoInquiryBot"), [name |-> "Crawl-delay", value |-> "nan"]>>)}

MgrMainResponses ==
    {Response(TRUE, 0, <<>>),
     Response(FALSE, 200, <<>>),
     Response(FALSE, 200, <<[text |-> "Terms of Service", href |-> "/terms"]>>)}

TosResponses ==
    {Response(TRUE, 0, {}),
     Response(FALSE, 503, {}),
     Response(FALSE, 200, {"contact"}),
     Response(FALSE, 200, {"bot", "contact"}),
     Response(FALSE, 200, {"bot", "prohibited"})}

InitMgr ==
    /\ compliance_level \in Levels
    /\ site_policies = <<>>
    /\ backoff_strategies = <<>>
    /\ fetch_log = <<>>
    /\ mgr_ret = [op |-> "init"]

MgrRet(op, url, fetched, tos, value) ==
    [op |-> op, url |-> url, level |-> compliance_level, fetched |-> fetched,
     tos |-> tos, value |-> value]

\* the log of policy fetches after get_site_policy(url)
Logged(url, robots, main) ==
    IF Fetches(site_policies, url)
    THEN LET target == urljoin(DomainOf(url), "/robots.txt")
             entry == [robots |-> robots, main |-> main]
         IN  IF target \in DOMAIN fetch_log
             THEN [fetch_log EXCEPT ![target] = Append(@, entry)]
             ELSE Put(fetch_log, target, <<entry>>)
    ELSE fetch_log

NotFetched == Response(TRUE, 0, <<>>)

\* what the network may answer to the fetches of get_site_policy(url): nothing
\* is fetched when the policy is cached, and the root page is not fetched when
\* the fetch of robots.txt raised
PolicyAnswers(url) ==
    IF Fetches(site_policies, url)
    THEN {a \in MgrRobotsResponses \X MgrMainResponses : a[1].raises => a[2] = NotFetched}
    ELSE {<<NotFetched, NotFetched>>}

\* what the network may answer to the fetch of the terms of service
TosAnswers(policy) ==
    IF policy.terms_of_service_url # None THEN TosResponses ELSE {Response(TRUE, 0, {})}

\* get_site_policy(url)
GetSitePolicy(url) ==
    \E answer \in PolicyAnswers(url) :
        /\ site_policies' = get_site_policy(site_policies, url, answer[1], answer[2])
        /\ fetch_log' = Logged(url, answer[1], answer[2])
        /\ mgr_ret' = MgrRet("get_site_policy", url, Fetches(site_policies, url), None,
                            site_policies'[DomainOf(url)])
        /\ UNCHANGED <<compliance_level, backoff_strategies, clockVars>>

\* check_compliance(url)
CheckCompliance(url) ==
    \E answer \in PolicyAnswers(url) :
        LET domain == DomainOf(url)
            policies == get_site_policy(site_policies, url, answer[1], answer[2])
            policy == policies[domain]
            backoffs == backoff_for(backoff_strategies, domain)
            backoff_delay == get_delay(backoffs[domain], now, rnd)
            has_tos == policy.terms_of_service_url # None
        IN  \E tos \in TosAnswers(policy) :
            /\ site_policies' = policies
            /\ fetch_log' = Logged(url, answer[1], answer[2])
            /\ backoff_strategies' = backoffs
            /\ IF DrawsJitter(backoffs[domain], now) THEN rnd' \in JitterDraws ELSE rnd' = rnd
            /\ mgr_ret' = MgrRet("check_compliance", url, Fetches(site_policies, url),
                                 IF has_tos THEN Some(tos) ELSE None,
                                 check_compliance(compliance_level, policy, backoff_delay, tos))
            /\ UNCHANGED <<compliance_level, now, ticks>>

\* record_request_result(url, success)
RecordRequestResult(url, success) ==
    LET domain == DomainOf(url)
        backoffs == backoff_for(backoff_strategies, domain)
    IN  /\ success \/ Len(backoffs[domain].failure_timestamps) < MaxMgrFailures
        /\ backoff_strategies' = record_request_result(backoff_strategies, url, success, now)
        /\ mgr_ret' = MgrRet("record_request_result", url, FALSE, None, [success |-> success])
        /\ UNCHANGED <<compliance_level, site_policies, fetch_log, clockVars>>

\* one call on the manager with a URL of urls
MgrStep(urls) ==
    \/ \E url \in urls : GetSitePolicy(url) /\ UNCHANGED <<policyVars, backoffVars, serviceVars, submitVars, flowVars>>
    \/ \E url \in urls : CheckCompliance(url) /\ UNCHANGED <<policyVars, backoffVars, serviceVars, submitVars, flowVars>>
    \/ \E url \in urls, success \in BOOLEAN :
           RecordRequestResult(url, success) /\ UNCHANGED <<policyVars, backoffVars, serviceVars, submitVars, flowVars>>

\* the URLs of one origin
OriginUrls == {u \in Urls : u.scheme = "https"}

(***************************************************************************)
(* Spec: the module's own manager (level moderate), called with URLs of    *)
(* two origins in any order.                                               *)
(***************************************************************************)
Next == MgrStep(Urls)

Init == PolicyIdle /\ BackoffIdle /\ InitClock /\ MgrIdle /\ ServiceIdle /\ SubmitIdle /\ FlowIdle

Spec == Init /\ [][Next]_vars

(***************************************************************************)
(* SpecLevels: a manager of any compliance level, called with the URLs of  *)
(* one origin.                                                             *)
(***************************************************************************)
NextLevels == MgrStep(OriginUrls)

InitLevels ==
    PolicyIdle /\ BackoffIdle /\ InitClock /\ InitMgr /\ ServiceIdle /\ SubmitIdle /\ FlowIdle

SpecLevels == InitLevels /\ [][NextLevels]_vars

(***************************************************************************)
(* SpecDelay: the module's own manager, called with the URLs of one origin *)
(* while time passes.                                                      *)
(***************************************************************************)
NextDelay ==
    \/ MgrStep(OriginUrls)
    \/ Tick(MaxMgrTicks, MgrTickSteps) /\ UNCHANGED <<policyVars, backoffVars, mgrVars, serviceVars, submitVars, flowVars>>

InitDelay ==
    PolicyIdle /\ BackoffIdle /\ InitClock /\ MgrIdle /\ ServiceIdle /\ SubmitIdle /\ FlowIdle

SpecDelay == InitDelay /\ [][NextDelay]_vars

(***************************************************************************)
(* Reading of a robots.txt by blocks, independent of the parser's loop: a  *)
(* directive line belongs to the block of the nearest User-agent line      *)
(* above it.                                                               *)
(***************************************************************************)
IsAgentLine(text, i) == Lower(text[i].name) = "user-agent"

AgentLinesBefore(text, i) == {j \in 1..(i - 1) : IsAgentLine(text, j)}

SetMax(S) == CHOOSE x \in S : \A y \in S : y <= x

\* the block of agent a holds line i
InBlockOf(text, i, a) ==
    /\ ~IsAgentLine(text, i)
    /\ AgentLinesBefore(text, i) # {}
    /\ Lower(text[SetMax(AgentLinesBefore(text, i))].value) = a

HasBlockOf(text, a) ==
    \E i \in 1..Len(text) : IsAgentLine(text, i) /\ Lower(text[i].value) = a

DisallowAllIn(text, a) ==
    \E i \in 1..Len(text) :
        /\ InBlockOf(text, i, a)
        /\ Lower(text[i].name) = "disallow"
        /\ text[i].value = "/"

\* the lines of block a that give a crawl delay that parses
DelayLinesIn(text, a) ==
    {i \in 1..Len(text) :
        /\ InBlockOf(text, i, a)
        /\ Lower(text[i].name) = "crawl-delay"
        /\ Float(text[i].value) # None}

\* the lookup parsed the text of robots.txt: neither fetch raised, status 200
Derived == an_policy # None /\ ~an_robots.raises /\ ~an_main.raises /\ an_robots.status_code = 200

\* C3: whenever the block of AutoInquiryBot in the parsed robots.txt holds
\* "Disallow: /", the policy derived from it has allows_crawling = FALSE,
\* whatever the wildcard block holds and wherever the blocks stand.
C3_BotDisallowAll ==
    (Derived /\ DisallowAllIn(an_robots.text, "autoinquirybot"))
        => an_policy[1].allows_crawling = FALSE

\* a wildcard block without "Disallow: /" stands above a bot block with it
C3_Witness ==
    /\ Derived
    /\ DisallowAllIn(an_robots.text, "autoinquirybot")
    /\ HasBlockOf(an_robots.text, "*")
    /\ ~DisallowAllIn(an_robots.text, "*")
    /\ IsAgentLine(an_robots.text, 1) /\ an_robots.text[1].value = "*"
    /\ an_policy[1].allows_crawling = FALSE

\* C4 (as claimed): when a block of AutoInquiryBot is present it alone
\* decides allows_crawling (the wildcard block is overridden, in any order
\* and with or without a bot-specific crawl delay), and a block of another
\* named agent never changes the policy.
C4_BotBlockOverrides ==
    Derived =>
        /\ HasBlockOf(an_robots.text, "autoinquirybot") =>
              (an_policy[1].allows_crawling = ~DisallowAllIn(an_robots.text, "autoinquirybot"))
        /\ (~HasBlockOf(an_robots.text, "autoinquirybot") /\ ~HasBlockOf(an_robots.text, "*")) =>
              (an_policy[1].allows_crawling /\ an_policy[1].requires_delay = 1000)

\* the delay d of C5: bot-specific if given, else the wildcard's, else 1.0
ClaimedDelay(text) ==
    IF DelayLinesIn(text, "autoinquirybot") # {}
    THEN Float(text[SetMax(DelayLinesIn(text, "autoinquirybot"))].value)[1]
    ELSE IF DelayLinesIn(text, "*") # {}
    THEN SetMax({Float(text[i].value)[1] : i \in DelayLinesIn(text, "*")} \cup {1000})
    ELSE 1000

\* C5: requires_delay is the larger of 1.0s and the claimed delay (the
\* bot-specific Crawl-delay if given, else the wildcard's, else 1.0s); it is
\* 2.0s when a fetch of the lookup raised; it is never below 1.0s.
C5_RequiresDelay ==
    an_policy # None =>
        /\ an_policy[1].requires_delay # NaN
        /\ an_policy[1].requires_delay >= 1000
        /\ (an_robots.raises \/ an_main.raises) => an_policy[1].requires_delay = 2000
        /\ (~an_robots.raises /\ ~an_main.raises /\ an_robots.status_code # 200) =>
              an_policy[1].requires_delay = 1000
        /\ Derived =>
              LET d == ClaimedDelay(an_robots.text)
              IN  an_policy[1].requires_delay = (IF d # NaN /\ d > 1000 THEN d ELSE 1000)

(***************************************************************************)
(* Claims about BackoffStrategy, under SpecBackoff.                        *)
(***************************************************************************)
\* the failures recorded less than one hour before time t
FailuresInLastHour(b, t) ==
    Cardinality({i \in DOMAIN b.failure_timestamps : t - b.failure_timestamps[i] < 3600})

\* min(base_delay * multiplier^n, max_delay)
CappedDelay(b, n) ==
    IF b.base_delay * Pow(b.multiplier, n) < b.max_delay
    THEN b.base_delay * Pow(b.multiplier, n)
    ELSE b.max_delay

Abs(x) == IF x < 0 THEN 0 - x ELSE x

\* C9: get_delay returns exactly base_delay when no recorded failure lies
\* within the trailing hour; otherwise it returns min(base_delay *
\* multiplier^n, max_delay) for the n failures of the trailing hour, off by
\* a jitter of at most 20% of that value, and never less than 0.1s.
C9_GetDelay ==
    bs_ret.op = "get_delay" =>
        LET n == FailuresInLastHour(bs, bs_ret.time)
        IN  IF n = 0
            THEN bs_ret.value = bs.base_delay
            ELSE /\ 5 * Abs(bs_ret.value - CappedDelay(bs, n)) <= CappedDelay(bs, n)
                 /\ bs_ret.value >= 100

\* get_delay was called when every recorded failure was an hour old or older
C9_Witness ==
    /\ bs_ret.op = "get_delay"
    /\ bs.failure_timestamps # <<>>
    /\ FailuresInLastHour(bs, bs_ret.time) = 0
    /\ bs_ret.value = bs.base_delay

\* C10: for one jitter draw the delay does not decrease when one more failure
\* is recorded, and whatever the number of failures get_delay returns at
\* most 1.1 * max_delay.
C10_MonotoneAndCapped ==
    /\ [](bs_ret.op = "get_delay" => 10 * bs_ret.value <= 11 * bs.max_delay)
    /\ [][BS_RecordFailure => get_delay(bs', now', rnd) >= get_delay(bs, now, rnd)]_vars

\* get_delay was called at the ceiling with a jitter draw that lifts it above
C10_Witness ==
    /\ bs_ret.op = "get_delay"
    /\ FailuresInLastHour(bs, bs_ret.time) >= 2
    /\ bs.base_delay * Pow(bs.multiplier, FailuresInLastHour(bs, bs_ret.time)) > bs.max_delay
    /\ bs_ret.value > bs.max_delay

(***************************************************************************)
(* Claims about the ComplianceManager.                                     *)
(***************************************************************************)
Range(seq) == {seq[i] : i \in DOMAIN seq}

\* the origin of a URL and the robots.txt of that origin
SiteOf(url) == [scheme |-> url.scheme, netloc |-> url.netloc, path |-> ""]

RobotsOf(url) == [scheme |-> url.scheme, netloc |-> url.netloc, path |-> "/robots.txt"]

Checked == mgr_ret.op = "check_compliance"

RobotsError == "robots.txt forbids access for this user agent"

RobotsWarning == "possibly restricted by robots.txt"

\* C1: when the site policy of the checked URL has allows_crawling = FALSE,
\* a check at level strict returns allowed = FALSE with the robots error; at
\* the other levels it returns the robots warning and no robots error, and
\* with no error at all it returns allowed = TRUE with a warning.
C1_RobotsDisallow ==
    (Checked /\ ~site_policies[SiteOf(mgr_ret.url)].allows_crawling) =>
        IF mgr_ret.level = "strict"
        THEN /\ ~mgr_ret.value.allowed
             /\ RobotsError \in Range(mgr_ret.value.errors)
        ELSE /\ RobotsError \notin Range(mgr_ret.value.errors)
             /\ RobotsWarning \in Range(mgr_ret.value.warnings)
             /\ mgr_ret.value.errors = <<>> =>
                    (mgr_ret.value.allowed /\ mgr_ret.value.warnings # <<>>)

\* a strict check of a URL whose robots.txt disallows everything
C1_Witness ==
    /\ Checked
    /\ ~site_policies[SiteOf(mgr_ret.url)].allows_crawling
    /\ mgr_ret.level = "strict"
    /\ ~mgr_ret.value.allowed
    /\ RobotsError \in Range(mgr_ret.value.errors)

\* C2: a check returns allowed = FALSE exactly when the level is strict and
\* it accumulated an error, or the level is moderate and it accumulated
\* three or more errors; at level permissive it always returns TRUE.
C2_AllowedByLevel ==
    Checked =>
        (~mgr_ret.value.allowed <=>
            \/ mgr_ret.level = "strict" /\ Len(mgr_ret.value.errors) >= 1
            \/ mgr_ret.level = "moderate" /\ Len(mgr_ret.value.errors) >= 3)

\* a moderate check that accumulated an error and is allowed all the same
C2_Witness ==
    /\ Checked
    /\ mgr_ret.level = "moderate"
    /\ Len(mgr_ret.value.errors) >= 1
    /\ mgr_ret.value.allowed

\* C6: each origin is fetched at most once; the cache holds, for every origin
\* looked up, the policy computed from that one fetch; and a lookup returns
\* the cached policy of the URL's origin.
C6_ComputeOnce ==
    /\ \A r \in DOMAIN fetch_log : Len(fetch_log[r]) = 1
    /\ \A k \in DOMAIN site_policies :
          /\ k = SiteOf(k)
          /\ RobotsOf(k) \in DOMAIN fetch_log
          /\ site_policies[k] = analyze_site_policy(k, fetch_log[RobotsOf(k)][1].robots,
                                                    fetch_log[RobotsOf(k)][1].main)
    /\ mgr_ret.op \in {"get_site_policy", "check_compliance"} =>
          SiteOf(mgr_ret.url) \in DOMAIN site_policies
    /\ mgr_ret.op = "get_site_policy" =>
          mgr_ret.value = site_policies[SiteOf(mgr_ret.url)]

\* a lookup answered from the cache after both origins were looked up and an
\* outcome was recorded for the origin
C6_Witness ==
    /\ mgr_ret.op = "get_site_policy"
    /\ ~mgr_ret.fetched
    /\ Cardinality(DOMAIN site_policies) = 2
    /\ SiteOf(mgr_ret.url) \in DOMAIN backoff_strategies
    /\ backoff_strategies[SiteOf(mgr_ret.url)].failure_timestamps # <<>>
    /\ mgr_ret.value = site_policies[SiteOf(mgr_ret.url)]

\* the one fetch of the policy of url raised
PolicyFetchFailed(url) ==
    LET fetch == fetch_log[RobotsOf(url)][1]
    IN  fetch.robots.raises \/ fetch.main.raises

TosFetchFailed == mgr_ret.tos # None /\ (mgr_ret.tos[1].raises \/ mgr_ret.tos[1].status_code # 200)

TosWarnings == {"terms of service analysis error", "terms of service not retrievable"}

\* C7 (as claimed): a check whose policy fetch failed works on the default
\* policy and returns allowed = TRUE, no error and a warning; a check whose
\* fetch of the terms of service failed returns a warning for it and no
\* error.
C7_FailOpenWithWarning ==
    Checked =>
        /\ PolicyFetchFailed(mgr_ret.url) =>
              /\ site_policies[SiteOf(mgr_ret.url)].allows_crawling
              /\ site_policies[SiteOf(mgr_ret.url)].requires_delay = 2000
              /\ mgr_ret.value.allowed
              /\ mgr_ret.value.errors = <<>>
              /\ mgr_ret.value.warnings # <<>>
        /\ TosFetchFailed =>
              /\ Range(mgr_ret.value.warnings) \cap TosWarnings # {}
              /\ Range(mgr_ret.value.errors) \subseteq {RobotsError}

(***************************************************************************)
(* Claims about the delay of a check, under SpecDelay.                     *)
(***************************************************************************)
\* what a check of url would return as delay_seconds in this state
DelayNow(url) ==
    LET p == site_policies[SiteOf(url)].requires_delay
        b == get_delay(backoff_strategies[SiteOf(url)], now, rnd)
    IN  IF Gt(b, p) THEN b ELSE p

\* the policy of url is cached and its origin has a BackoffStrategy
Known(url) == SiteOf(url) \in DOMAIN site_policies /\ SiteOf(url) \in DOMAIN backoff_strategies

\* the step is a call that leaves the clock alone and returns as op for url
Returns(op, url) == ticks' = ticks /\ mgr_ret'.op = op /\ mgr_ret'.url = url

\* the step records a failure for url
FailureRecorded(url) ==
    Known(url) /\ Returns("record_request_result", url) /\ ~mgr_ret'.value.success

\* the backoff of the origin of url has not reached max_delay
BelowCeiling(url) ==
    LET b == backoff_strategies[SiteOf(url)]
    IN  b.base_delay * Pow(b.multiplier, FailuresInLastHour(b, now)) < b.max_delay

\* C8 (as claimed): recording a failure for a domain makes the delay of a
\* check of that domain larger than it was before the failure.
C8_FailureRaisesDelay ==
    [][\A url \in OriginUrls :
          (FailureRecorded(url) /\ site_policies[SiteOf(url)].requires_delay # NaN)
              => DelayNow(url)' > DelayNow(url)]_vars

\* C8 (amended): a check returns as delay_seconds the larger of the policy's
\* required delay and the backoff delay of the domain, never less than the
\* required delay; with the clock and the jitter draw unchanged, recording
\* a failure never lowers the delay a check returns, and raises it whenever
\* the new backoff delay exceeds the required delay and the backoff had not
\* reached max_delay.
C8_DelayOfCheck ==
    [][/\ \A url \in OriginUrls :
             Returns("check_compliance", url) =>
                 LET p == site_policies'[SiteOf(url)].requires_delay
                     b == get_delay(backoff_strategies'[SiteOf(url)], now, rnd)
                 IN  /\ mgr_ret'.value.delay_seconds = (IF Gt(b, p) THEN b ELSE p)
                     /\ ~Gt(p, mgr_ret'.value.delay_seconds)
       /\ \A url \in OriginUrls :
             FailureRecorded(url) =>
                 /\ ~Gt(DelayNow(url), DelayNow(url)')
                 /\ (/\ BelowCeiling(url)
                     /\ Gt(get_delay(backoff_strategies'[SiteOf(url)], now, rnd),
                           site_policies[SiteOf(url)].requires_delay))
                        => Gt(DelayNow(url)', DelayNow(url))]_vars

\* a check made within the hour after a failure returns more than the
\* required delay of the policy
C8_Witness ==
    /\ Checked
    /\ FailuresInLastHour(backoff_strategies[SiteOf(mgr_ret.url)], now) >= 1
    /\ site_policies[SiteOf(mgr_ret.url)].requires_delay # NaN
    /\ mgr_ret.value.delay_seconds > site_policies[SiteOf(mgr_ret.url)].requires_delay

(***************************************************************************)
(* Claims about the failure history of a BackoffStrategy, under            *)
(* SpecBackoff.                                                            *)
(***************************************************************************)
\* how often the timestamp ts stands in the list
Count(list, ts) == Cardinality({i \in DOMAIN list : list[i] = ts})

C12_SuccessLowersDelay ==
    [][(BS_RecordSuccess /\ FailuresInLastHour(bs, now) >= 1) =>
           \A r1, r2 \in JitterDraws : get_delay(bs', now, r2) < get_delay(bs, now, r1)]_vars

(***************************************************************************)
(* Text as the form services read it.  str.lower() and the substring and   *)
(* regex searches of the code are tables over the texts the model uses:    *)
(* KeywordsIn(text) holds the keywords that occur in the lowercased text.  *)
(* No keyword holds a space, so the keywords of texts joined by spaces are *)
(* the union of the keywords of the parts.                                 *)
(***************************************************************************)
TextLower(s) ==
    CASE s = "EMAIL" -> "email"
      [] s = "E-Mail" -> "e-mail"
      [] s = "Your mail" -> "your mail"
      [] s = "Content" -> "content"
      [] s = "Company email" -> "company email"
      [] s = "Contact e-mail" -> "contact e-mail"
      [] s = "Your name" -> "your name"
      [] s = "Telephone" -> "telephone"
      [] s = "Subject" -> "subject"
      [] s = "Contact" -> "contact"
      [] s = "Support" -> "support"
      [] s = "About" -> "about"
      [] OTHER -> s

KeywordsIn(text) ==
    CASE text = "email" -> {"email", "mail"}
      [] text = "e-mail" -> {"mail"}
      [] text = "your mail" -> {"mail"}
      [] text = "tel" -> {"tel"}
      [] text = "phone" -> {"phone"}
      [] text = "phone-field" -> {"phone"}
      [] text = "telephone" -> {"tel", "phone"}
      [] text = "hotel" -> {"tel"}
      [] text = "message" -> {"message"}
      [] text = "content" -> {"content"}
      [] text = "company email" -> {"company", "email", "mail"}
      [] text = "contact e-mail" -> {"contact", "mail"}
      [] text = "your name" -> {"name"}
      [] text = "contact" -> {"contact"}
      [] text = "support" -> {"support"}
      [] text = "/contact" -> {"contact"}
      [] text = "/inquiry" -> {"inquiry"}
      [] text = "/support.pdf" -> {"support"}
      [] text = "/support/faq" -> {"support"}
      [] text = "contact@example.com" -> {"contact"}
      [] OTHER -> {}

\* any(keyword in text.lower() for keyword in keywords)
AnyIn(keywords, text) == keywords \cap KeywordsIn(TextLower(text)) # {}

(***************************************************************************)
(* FormDetector._determine_field_type.  An absent attribute or label is    *)
(* the empty text.  The second pattern of a type ("type=email") matches    *)
(* only texts the first one ("email|mail") matches too.                    *)
(***************************************************************************)
\* FIELD_TYPE_PATTERNS, in the order of the dict
FIELD_TYPE_PATTERNS ==
    <<[form_type |-> "email", keywords |-> {"email", "mail"}],
      [form_type |-> "tel", keywords |-> {"tel", "phone"}],
      [form_type |-> "textarea", keywords |-> {"message", "content"}]>>

\* the form type of the first pattern found in one of the texts, else text
PatternType(texts) ==
    LET found == {i \in DOMAIN FIELD_TYPE_PATTERNS :
                     \E t \in texts : AnyIn(FIELD_TYPE_PATTERNS[i].keywords, t)}
    IN  IF found = {}
        THEN "text"
        ELSE FIELD_TYPE_PATTERNS[CHOOSE i \in found : \A j \in found : i <= j].form_type

\* the type inferred from the keywords before the type attribute is read
determine_field_type_KeywordsFirst(tag_name, field_type, name, field_id, placeholder, label) ==
    LET combined_text == {field_type, name, field_id, placeholder, label} \ {""}
    IN  IF tag_name = "textarea" THEN "textarea"
        ELSE IF tag_name = "select" THEN "select"
        ELSE IF PatternType(combined_text) # "text" THEN PatternType(combined_text)
        ELSE IF TextLower(field_type) \in {"email"} THEN "email"
        ELSE IF TextLower(field_type) \in {"tel", "phone"} THEN "tel"
        ELSE IF TextLower(field_type) \in {"radio"} THEN "radio"
        ELSE IF TextLower(field_type) \in {"checkbox"} THEN "checkbox"
        ELSE "text"

determine_field_type(tag_name, field_type, name, field_id, placeholder, label) ==
    LET combined_text == {field_type, name, field_id, placeholder, label} \ {""}
    IN  IF tag_name = "textarea" THEN "textarea"
        ELSE IF tag_name = "select" THEN "select"
        ELSE IF field_type # "" /\ TextLower(field_type) \in {"email"} THEN "email"
        ELSE IF field_type # "" /\ TextLower(field_type) \in {"tel", "phone"} THEN "tel"
        ELSE IF field_type # "" /\ TextLower(field_type) \in {"radio"} THEN "radio"
        ELSE IF field_type # "" /\ TextLower(field_type) \in {"checkbox"} THEN "checkbox"
        ELSE PatternType(combined_text)

\* the controls _determine_field_type is called for
FieldTypeCalls ==
    [op : {"determine_field_type"},
     tag_name : {"input", "textarea", "select"},
     field_type : {"", "text", "email", "EMAIL", "tel", "phone", "radio", "checkbox", "hidden"},
     name : {"", "email", "hotel", "message", "q"},
     field_id : {"", "phone-field"},
     placeholder : {"", "Your mail"},
     label : {"", "E-Mail", "Content"}]

InitFieldType ==
    /\ svc_call \in FieldTypeCalls
    /\ svc_ret = None
    /\ PolicyIdle /\ ClockIdle /\ BackoffIdle /\ MgrIdle /\ SubmitIdle /\ FlowIdle

DetermineFieldType ==
    /\ svc_call.op = "determine_field_type"
    /\ svc_ret = None
    /\ svc_ret' = Some(determine_field_type(svc_call.tag_name, svc_call.field_type,
                                            svc_call.name, svc_call.field_id,
                                            svc_call.placeholder, svc_call.label))
    /\ UNCHANGED svc_call

NextFieldType ==
    DetermineFieldType /\ UNCHANGED <<policyVars, clockVars, backoffVars, mgrVars, submitVars, flowVars>>

SpecFieldType == InitFieldType /\ [][NextFieldType]_vars

\* C15: a textarea tag yields textarea and a select tag select, whatever the
\* attributes; otherwise a type attribute of email, tel or phone, radio or
\* checkbox yields email, tel, radio or checkbox, whatever name, id,
\* placeholder and label say; otherwise the result is a type whose keyword
\* occurs in one of the texts, and text when no keyword occurs.
C15_TypePriority ==
    (svc_call.op = "determine_field_type" /\ svc_ret # None) =>
        LET c == svc_call
            type == TextLower(c.field_type)
            texts == {c.field_type, c.name, c.field_id, c.placeholder, c.label}
            mail == \E t \in texts : AnyIn({"email", "mail"}, t)
            phone == \E t \in texts : AnyIn({"tel", "phone"}, t)
            body == \E t \in texts : AnyIn({"message", "content"}, t)
        IN  CASE c.tag_name = "textarea" -> svc_ret[1] = "textarea"
              [] c.tag_name = "select" -> svc_ret[1] = "select"
              [] c.tag_name = "input" /\ type \in {"email", "radio", "checkbox"} ->
                     svc_ret[1] = type
              [] c.tag_name = "input" /\ type \in {"tel", "phone"} -> svc_ret[1] = "tel"
              [] OTHER ->
                     /\ svc_ret[1] \in {"email", "tel", "textarea", "text"}
                     /\ svc_ret[1] = "email" => mail
                     /\ svc_ret[1] = "tel" => phone
                     /\ svc_ret[1] = "textarea" => body
                     /\ svc_ret[1] = "text" <=> ~(mail \/ phone \/ body)

\* a radio button whose name and label speak of mail is typed radio
C15_Witness ==
    /\ svc_call.op = "determine_field_type"
    /\ svc_call.tag_name = "input"
    /\ svc_call.field_type = "radio"
    /\ svc_call.name = "email"
    /\ svc_call.label = "E-Mail"
    /\ svc_ret = Some("radio")

(***************************************************************************)
(* FormSubmitter._map_template_data_to_field.  A field is its name, label  *)
(* ("" for no label) and field_type; template_data is a dict from keys to  *)
(* values.                                                                 *)
(***************************************************************************)
\* the keyword groups of the label matching, in the order of the code
LabelGroups ==
    <<[keywords |-> {"company", "corporation"}, key |-> "company_name"],
      [keywords |-> {"name", "contact"}, key |-> "contact_name"],
      [keywords |-> {"email", "mail"}, key |-> "email"],
      [keywords |-> {"tel", "phone"}, key |-> "phone"],
      [keywords |-> {"message", "inquiry", "content"}, key |-> "message"]>>

\* template_data.get(key)
Get(template_data, key) ==
    IF key \in DOMAIN template_data THEN Some(template_data[key]) ELSE None

\* the groups whose keyword occurs in the label
MatchedGroups(label) == {i \in DOMAIN LabelGroups : AnyIn(LabelGroups[i].keywords, label)}

\* the mapping by the field type alone
TypeKey(field_type) ==
    CASE field_type = "email" -> Some("email")
      [] field_type = "tel" -> Some("phone")
      [] field_type = "textarea" -> Some("message")
      [] OTHER -> None

map_template_data_to_field(field, template_data) ==
    LET matched == MatchedGroups(field.label)
        first == CHOOSE i \in matched : \A j \in matched : i <= j
    IN  IF field.name \in DOMAIN template_data
        THEN Some(template_data[field.name])
        ELSE IF field.label # "" /\ matched # {}
        THEN Get(template_data, LabelGroups[first].key)
        ELSE IF TypeKey(field.field_type) # None
        THEN Get(template_data, TypeKey(field.field_type)[1])
        ELSE None

\* the value a template gives for a key
TemplateValue(key) ==
    CASE key = "email" -> "a@b.com"
      [] key = "phone" -> "03-1234-5678"
      [] key = "message" -> "hi"
      [] key = "company_name" -> "ACME"
      [] key = "contact_name" -> "Taro"
      [] OTHER -> "other"

TemplateKeys == {"email", "phone", "message", "company_name", "contact_name", "q"}

TemplateData == {[k \in keys |-> TemplateValue(k)] : keys \in SUBSET TemplateKeys}

StoredFields ==
    [name : {"q", "email", "field_1"},
     label : {"", "Company email", "Contact e-mail", "Your name", "Telephone", "Content",
              "Subject"},
     field_type : {"text", "email", "tel", "textarea", "select"}]

MapCalls ==
    [op : {"map_template_data_to_field"}, field : StoredFields, template_data : TemplateData]

InitMapValue ==
    /\ svc_call \in MapCalls
    /\ svc_ret = None
    /\ PolicyIdle /\ ClockIdle /\ BackoffIdle /\ MgrIdle /\ SubmitIdle /\ FlowIdle

\* svc_ret holds the Optional the call returned
MapTemplateDataToField ==
    /\ svc_call.op = "map_template_data_to_field"
    /\ svc_ret = None
    /\ svc_ret' = Some(map_template_data_to_field(svc_call.field, svc_call.template_data))
    /\ UNCHANGED svc_call

NextMapValue ==
    MapTemplateDataToField
        /\ UNCHANGED <<policyVars, clockVars, backoffVars, mgrVars, submitVars, flowVars>>

SpecMapValue == InitMapValue /\ [][NextMapValue]_vars

\* the three steps of C16: the value each one finds in the bag, or None
ByName(field, bag) == Get(bag, field.name)

ByLabel(field, bag) ==
    LET matched == MatchedGroups(field.label)
    IN  IF matched = {}
        THEN None
        ELSE Get(bag, LabelGroups[CHOOSE i \in matched : \A j \in matched : i <= j].key)

ByType(field, bag) ==
    IF TypeKey(field.field_type) = None THEN None ELSE Get(bag, TypeKey(field.field_type)[1])

\* C16 (as claimed): the call returns the value of the first of the three
\* steps (name, label group, semantic type) that finds a value in the bag,
\* and null only if none of the three finds one.
C16_FirstStepThatResolves ==
    (svc_call.op = "map_template_data_to_field" /\ svc_ret # None) =>
        LET f == svc_call.field
            bag == svc_call.template_data
        IN  svc_ret[1] = (IF ByName(f, bag) # None THEN ByName(f, bag)
                          ELSE IF ByLabel(f, bag) # None THEN ByLabel(f, bag)
                          ELSE ByType(f, bag))

(***************************************************************************)
(* FormDetector._analyze_form_page: the forms of the loaded page, each     *)
(* with the controls "input, textarea, select" finds in it.  A control     *)
(* carries its attributes, the label _find_field_label finds for it ("" if *)
(* none) and whether reading it raises; a form carries whether listing its *)
(* controls raises and whether a reCAPTCHA element is found.               *)
(***************************************************************************)
\* _get_field_selector
get_field_selector(control) ==
    IF control.field_id # "" THEN "#" \o control.field_id
    ELSE IF control.name # "" THEN "[name='" \o control.name \o "']"
    ELSE IF control.field_type # "" THEN "input[type='" \o control.field_type \o "']"
    ELSE control.tag_name

\* _analyze_field: None when reading the control raises
analyze_field(control) ==
    IF control.raises
    THEN None
    ELSE LET field_type == IF control.field_type # "" THEN control.field_type ELSE "text"
             selector == get_field_selector(control)
         IN  Some([name |-> IF control.name # "" THEN control.name
                            ELSE IF control.field_id # "" THEN control.field_id
                            ELSE "field_" \o selector,
                   field_type |-> determine_field_type(control.tag_name, field_type,
                                                       control.name, control.field_id, "",
                                                       control.label),
                   selector |-> selector,
                   label |-> control.label,
                   required |-> control.required])

\* the fields of the controls whose analysis returned one, in order
RECURSIVE AnalyzedFields(_)
AnalyzedFields(controls) ==
    IF controls = <<>>
    THEN <<>>
    ELSE analyze_field(Head(controls)) \o AnalyzedFields(Tail(controls))

\* _analyze_single_form: None, or the form data
analyze_single_form(form, form_url) ==
    IF form.raises
    THEN None
    ELSE IF Len(form.controls) < 2
    THEN None
    ELSE Some([form_url |-> form_url,
               fields |-> AnalyzedFields(form.controls),
               has_recaptcha |-> form.recaptcha])

\* _analyze_forms: the data of the forms that gave one, in order
RECURSIVE analyze_forms(_, _)
analyze_forms(form_elements, form_url) ==
    IF form_elements = <<>>
    THEN <<>>
    ELSE analyze_single_form(Head(form_elements), form_url)
             \o analyze_forms(Tail(form_elements), form_url)

\* _analyze_form_page after page.goto: the first form, or None
analyze_form_page(form_elements, form_url) ==
    LET forms == analyze_forms(form_elements, form_url)
    IN  IF forms # <<>> THEN Some(forms[1]) ELSE None

Controls ==
    {[tag_name |-> "input", field_type |-> "email", name |-> "email", field_id |-> "",
      label |-> "E-Mail", required |-> TRUE, raises |-> FALSE],
     [tag_name |-> "textarea", field_type |-> "", name |-> "", field_id |-> "message",
      label |-> "", required |-> FALSE, raises |-> FALSE],
     [tag_name |-> "input", field_type |-> "hidden", name |-> "q", field_id |-> "",
      label |-> "", required |-> FALSE, raises |-> TRUE]}

\* the sequences over S of length at most n
SeqUpTo(S, n) == UNION {[1..k -> S] : k \in 0..n}

FormElements ==
    {[controls |-> c, raises |-> f[1], recaptcha |-> f[2]] :
        c \in SeqUpTo(Controls, MaxControls),
        f \in {<<FALSE, FALSE>>, <<FALSE, TRUE>>, <<TRUE, FALSE>>}}

AnalyzeCalls ==
    [op : {"analyze_form_page"},
     form_url : {"https://example.com/contact"},
     forms : SeqUpTo(FormElements, MaxForms)]

InitAnalyze ==
    /\ svc_call \in AnalyzeCalls
    /\ svc_ret = None
    /\ PolicyIdle /\ ClockIdle /\ BackoffIdle /\ MgrIdle /\ SubmitIdle /\ FlowIdle

\* svc_ret holds the Optional form data detect_forms stores when it is a form
AnalyzeFormPage ==
    /\ svc_call.op = "analyze_form_page"
    /\ svc_ret = None
    /\ svc_ret' = Some(analyze_form_page(svc_call.forms, svc_call.form_url))
    /\ UNCHANGED svc_call

NextAnalyze ==
    AnalyzeFormPage /\ UNCHANGED <<policyVars, clockVars, backoffVars, mgrVars, submitVars, flowVars>>

SpecAnalyze == InitAnalyze /\ [][NextAnalyze]_vars

\* C14 (as claimed): the form data the analysis of a page returns, which the
\* detect run stores, never has fewer than 2 fields.
C14_AtLeastTwoFields ==
    (svc_call.op = "analyze_form_page" /\ svc_ret # None /\ svc_ret[1] # None) =>
        Len(svc_ret[1][1].fields) >= 2

(***************************************************************************)
(* FormDetector._find_contact_links.  A URL or href is kept by its parts:  *)
(* scheme, host (the labels of the netloc), path and fragment, "" or <<>>  *)
(* for an absent part.  A link of the page has its text, its href (None if *)
(* it has none) and whether it stands in a footer or navigation area.      *)
(***************************************************************************)
Ref(scheme, host, path, fragment) ==
    [scheme |-> scheme, host |-> host, path |-> path, fragment |-> fragment]

\* the ASCII keywords of CONTACT_KEYWORDS, in order
CONTACT_KEYWORDS == <<"contact", "inquiry", "support", "help">>

\* urljoin(base_url, href)
JoinHref(base, href) ==
    IF href.scheme # "" THEN href
    ELSE IF href.host # <<>> THEN [href EXCEPT !.scheme = base.scheme]
    ELSE IF href.path # "" THEN Ref(base.scheme, base.host, href.path, href.fragment)
    ELSE [base EXCEPT !.fragment = href.fragment]

\* netloc.endswith("." + base netloc)
EndsWithDot(host, base_host) ==
    /\ Len(host) > Len(base_host)
    /\ SubSeq(host, Len(host) - Len(base_host) + 1, Len(host)) = base_host

\* the extension the lowercased URL ends with, "" if none
Extension(url) ==
    IF url.fragment # "" THEN ""
    ELSE CASE url.path = "/support.pdf" -> "pdf"
           [] OTHER -> ""

\* the host test with endswith(base netloc), without the dot
is_valid_contact_url_SuffixOnly(url, base_url) ==
    IF ~(\/ url.host = base_url.host
         \/ /\ Len(url.host) >= Len(base_url.host)
            /\ LET n == Len(url.host)
                   m == Len(base_url.host)
               IN  \/ SubSeq(url.host, n - m + 1, n) = base_url.host
                   \/ /\ SubSeq(url.host, n - m + 2, n) = SubSeq(base_url.host, 2, m)
                      /\ url.host[n - m + 1] = "not" \o base_url.host[1])
    THEN FALSE
    ELSE IF url.scheme \in {"javascript", "mailto", "tel"} THEN FALSE
    ELSE IF url.fragment # "" THEN FALSE
    ELSE IF Extension(url) \in {"jpg", "jpeg", "png", "gif", "pdf", "doc", "docx"} THEN FALSE
    ELSE TRUE

\* _is_valid_contact_url
is_valid_contact_url(url, base_url) ==
    IF ~(url.host = base_url.host \/ EndsWithDot(url.host, base_url.host))
    THEN FALSE
    ELSE IF url.scheme \in {"javascript", "mailto", "tel"} THEN FALSE
    ELSE IF url.fragment # "" THEN FALSE
    ELSE IF Extension(url) \in {"jpg", "jpeg", "png", "gif", "pdf", "doc", "docx"} THEN FALSE
    ELSE TRUE

\* the keywords in the lowercased href
HrefKeywords(href) ==
    KeywordsIn(TextLower(href.path)) \cup KeywordsIn(TextLower(href.fragment))

\* the links a pass looks at before it raises: all of them when fail_at is
\* None, else those before position fail_at + 1
Reached(links, fail_at) ==
    IF fail_at = None THEN links
    ELSE SubSeq(links, 1, IF fail_at[1] < Len(links) THEN fail_at[1] ELSE Len(links))

\* the absolute URLs of the links that have an href
Hrefs(links, base_url) ==
    {JoinHref(base_url, links[i].href[1]) : i \in {j \in DOMAIN links : links[j].href # None}}

\* the set contact_links before the filter; fail says which keyword searches
\* raise and where the two other passes raise
contact_links(links, base_url, fail) ==
    LET by_text(l) ==
            \E i \in DOMAIN CONTACT_KEYWORDS :
                /\ CONTACT_KEYWORDS[i] \notin fail.keywords
                /\ CONTACT_KEYWORDS[i] \in KeywordsIn(TextLower(l.text))
        by_href(l) == l.href # None /\ HrefKeywords(l.href[1]) # {}
        in_footer(l) == l.footer /\ KeywordsIn(l.text) # {}
        default_paths == <<"/contact", "/contact-us", "/inquiry", "/support">>
    IN  Hrefs(SelectSeq(links, by_text), base_url)
            \cup Hrefs(SelectSeq(Reached(links, fail.href_pass), by_href), base_url)
            \cup Hrefs(SelectSeq(Reached(links, fail.footer_pass), in_footer), base_url)
            \cup {JoinHref(base_url, Ref("", <<>>, default_paths[i], "")) :
                     i \in DOMAIN default_paths}

\* the URLs that pass the filter
filtered_links(links, base_url, fail) ==
    {url \in contact_links(links, base_url, fail) : is_valid_contact_url(url, base_url)}

\* the lists filtered_links[:5] can be: the set is iterated in an order the
\* code does not fix
find_contact_links(links, base_url, fail) ==
    LET filtered == filtered_links(links, base_url, fail)
        n == IF Cardinality(filtered) < 5 THEN Cardinality(filtered) ELSE 5
    IN  {[i \in 1..n |-> [url |-> order[i]]] :
            order \in {f \in [1..n -> filtered] : \A i, j \in 1..n : f[i] = f[j] => i = j}}

Example == <<"example", "com">>

PageLinks ==
    {[text |-> "Contact", href |-> Some(Ref("", <<>>, "/inquiry", "")), footer |-> FALSE],
     [text |-> "About", href |-> Some(Ref("https", <<"sub">> \o Example, "/contact", "")),
      footer |-> TRUE],
     [text |-> "contact", href |-> Some(Ref("mailto", <<>>, "contact@example.com", "")),
      footer |-> TRUE],
     [text |-> "Support", href |-> Some(Ref("", <<>>, "/support.pdf", "")), footer |-> FALSE],
     [text |-> "contact", href |-> Some(Ref("", <<>>, "", "contact")), footer |-> TRUE],
     [text |-> "support", href |-> Some(Ref("https", <<"notexample", "com">>, "/contact", "")),
      footer |-> FALSE],
     [text |-> "support", href |-> Some(Ref("", <<>>, "/support/faq", "")), footer |-> TRUE],
     [text |-> "contact", href |-> None, footer |-> FALSE]}

\* which searches raise: keyword searches, and the position in the two other
\* passes (0: the listing of the links raises)
Failures ==
    [keywords : {{}, {"contact"}},
     href_pass : {None, Some(0), Some(1)},
     footer_pass : {None, Some(0)}]

FindCalls ==
    [op : {"find_contact_links"},
     base_url : {Ref("https", Example, "", "")},
     links : SeqUpTo(PageLinks, MaxLinks),
     fail : Failures]

InitFind ==
    /\ svc_call \in FindCalls
    /\ svc_ret = None
    /\ PolicyIdle /\ ClockIdle /\ BackoffIdle /\ MgrIdle /\ SubmitIdle /\ FlowIdle

FindContactLinks ==
    /\ svc_call.op = "find_contact_links"
    /\ svc_ret = None
    /\ \E result \in find_contact_links(svc_call.links, svc_call.base_url, svc_call.fail) :
           svc_ret' = Some(result)
    /\ UNCHANGED svc_call

NextFind ==
    FindContactLinks /\ UNCHANGED <<policyVars, clockVars, backoffVars, mgrVars, submitVars, flowVars>>

SpecFind == InitFind /\ [][NextFind]_vars

\* exact host match or subdomain of the base host
SameSite(url, base_url) ==
    \/ url.host = base_url.host
    \/ /\ Len(url.host) > Len(base_url.host)
       /\ \A i \in 1..Len(base_url.host) :
             url.host[Len(url.host) - Len(base_url.host) + i] = base_url.host[i]

\* a javascript:, mailto:, tel: or fragment-only link, or a URL that ends in
\* a binary or document file extension
Excluded(url, base_url) ==
    \/ url.scheme \in {"javascript", "mailto", "tel"}
    \/ url.fragment # "" /\ url.host = base_url.host /\ url.path = base_url.path
    \/ Extension(url) \in {"jpg", "jpeg", "png", "gif", "pdf", "doc", "docx"}

\* the URLs of the searches that did not fail and of the four path guesses
\* that the filter of the code keeps
Surviving(links, base_url, fail) ==
    LET hit(l) ==
            \/ \E i \in DOMAIN CONTACT_KEYWORDS :
                  /\ CONTACT_KEYWORDS[i] \notin fail.keywords
                  /\ CONTACT_KEYWORDS[i] \in KeywordsIn(TextLower(l.text))
            \/ fail.href_pass = None /\ HrefKeywords(l.href[1]) # {}
            \/ fail.footer_pass = None /\ l.footer /\ KeywordsIn(l.text) # {}
        found == {JoinHref(base_url, links[i].href[1]) :
                     i \in {j \in DOMAIN links : links[j].href # None /\ hit(links[j])}}
        guesses == {Ref(base_url.scheme, base_url.host, path, "") :
                       path \in {"/contact", "/contact-us", "/inquiry", "/support"}}
    IN  {url \in found \cup guesses : is_valid_contact_url(url, base_url)}

\* C13: find_contact_links returns at most 5 entries, no URL twice, each on
\* the host of the base URL or a subdomain of it and none excluded; the
\* searches that did not fail and the four path guesses are still in the
\* result as far as the five places reach, whichever searches failed.
C13_ContactLinks ==
    (svc_call.op = "find_contact_links" /\ svc_ret # None) =>
        LET result == svc_ret[1]
            base_url == svc_call.base_url
            expected == Surviving(svc_call.links, base_url, svc_call.fail)
        IN  /\ Len(result) <= 5
            /\ \A i, j \in DOMAIN result : result[i].url = result[j].url => i = j
            /\ \A i \in DOMAIN result :
                  /\ SameSite(result[i].url, base_url)
                  /\ ~Excluded(result[i].url, base_url)
            /\ Len(result) < 5 => expected \subseteq {result[i].url : i \in DOMAIN result}
            /\ Cardinality(expected) >= 5 => Len(result) = 5

\* two keyword links were found while the search for "contact" and the href
\* pass failed; the one on another host was dropped, the other one is
\* returned with the four path guesses
C13_Witness ==
    /\ svc_call.op = "find_contact_links"
    /\ svc_ret # None
    /\ svc_call.fail.keywords = {"contact"}
    /\ svc_call.fail.href_pass = Some(0)
    /\ Len(svc_ret[1]) = 5
    /\ \E i \in DOMAIN svc_ret[1] : svc_ret[1][i].url.path = "/support/faq"
    /\ \E url \in contact_links(svc_call.links, svc_call.base_url, svc_call.fail) :
          ~SameSite(url, svc_call.base_url)

(***************************************************************************)
(* FormSubmitter._execute_submission.  sub_args holds the stored form, the *)
(* template data, the two flags and what the page shows; sub_pc is the     *)
(* place of the attempt, sub_idx the field the fill loop is at, sub_log    *)
(* the operations attempted on the page, each with whether it raised, and  *)
(* sub_result the dict returned.                                           *)
(***************************************************************************)
SubmissionStatus ==
    [PENDING |-> "pending", SUCCESS |-> "success", FAILED |-> "failed",
     CAPTCHA_REQUIRED |-> "captcha_required"]

\* an operation on the page: what, in which state, for which field (0 for
\* none), and whether it raised
Event(act, state, field, raised) ==
    [act |-> act, state |-> state, field |-> field, raised |-> raised]

\* _take_screenshot: the event and the URL returned, None when it failed
Screenshot(state, ok) == Event("screenshot", state, 0, ~ok)

ScreenshotUrl(suffix, ok) == IF ok THEN Some(suffix) ELSE None

\* the events of the optional screenshot
Shot(state, ok) == IF sub_args.take_screenshot THEN <<Screenshot(state, ok)>> ELSE <<>>

Outcome(status, response, error_message, screenshot_url) ==
    [status |-> status, response |-> response, error_message |-> error_message,
     screenshot_url |-> screenshot_url]

\* return of a dict: the attempt is over
Return(events, outcome) ==
    /\ sub_log' = sub_log \o events
    /\ sub_result' = Some(outcome)
    /\ sub_pc' = "END"
    /\ UNCHANGED sub_idx

\* the except branch of _execute_submission
Failed(events, ok) ==
    Return(events \o Shot("FAILED", ok),
           Outcome(SubmissionStatus.FAILED, None, Some("exception"),
                   IF sub_args.take_screenshot THEN ScreenshotUrl("error", ok) ELSE None))

\* page.goto and the settle delay
Navigate ==
    /\ sub_pc = "NAVIGATE"
    /\ \E raises \in BOOLEAN, ok \in BOOLEAN :
          IF raises
          THEN Failed(<<Event("goto", "NAVIGATE", 0, TRUE)>>, ok)
          ELSE /\ sub_pc' = "CAPTCHA_CHECK"
               /\ sub_log' = Append(sub_log, Event("goto", "NAVIGATE", 0, FALSE))
               /\ UNCHANGED <<sub_idx, sub_result>>
    /\ UNCHANGED sub_args

\* a detection that never reports a CAPTCHA
detect_active_recaptcha_Never(captcha_visible, raises) == FALSE

\* _detect_active_recaptcha
detect_active_recaptcha(captcha_visible, raises) ==
    IF raises THEN FALSE ELSE captcha_visible

CaptchaCheck ==
    /\ sub_pc = "CAPTCHA_CHECK"
    /\ IF ~sub_args.form.has_recaptcha
       THEN /\ sub_pc' = "FILL"
            /\ sub_idx' = 1
            /\ UNCHANGED <<sub_log, sub_result>>
       ELSE \E raises \in BOOLEAN, ok \in BOOLEAN :
               LET detect == Event("detect", "CAPTCHA_CHECK", 0, raises)
               IN  IF detect_active_recaptcha(sub_args.page.captcha_visible, raises)
                   THEN Return(<<detect>> \o Shot("CAPTCHA_CHECK", ok),
                               Outcome(SubmissionStatus.CAPTCHA_REQUIRED,
                                       Some("reCAPTCHA detected. Manual intervention required."),
                                       None,
                                       IF sub_args.take_screenshot
                                       THEN ScreenshotUrl("captcha", ok) ELSE None))
                   ELSE /\ sub_pc' = "FILL"
                        /\ sub_idx' = 1
                        /\ sub_log' = Append(sub_log, detect)
                        /\ UNCHANGED sub_result
    /\ UNCHANGED sub_args

\* a fill loop that passes no exception on
Propagates_Never(field) == FALSE

\* the exceptions of a field that _fill_form_fields raises again
Propagates(field) == field.required

\* the next field of the loop
Continue(events) ==
    /\ sub_idx' = sub_idx + 1
    /\ sub_log' = sub_log \o events
    /\ UNCHANGED <<sub_pc, sub_result>>

\* one round of the loop of _fill_form_fields
FillField ==
    /\ sub_pc = "FILL"
    /\ sub_idx <= Len(sub_args.form.fields)
    /\ LET field == sub_args.form.fields[sub_idx]
           field_value == map_template_data_to_field(field, sub_args.template_data)
           locate(raised) == Event("locate", "FILL", sub_idx, raised)
           input(raised) ==
               Event(IF field.field_type = "select" THEN "select_option" ELSE "fill",
                     "FILL", sub_idx, raised)
           except(events, ok) ==
               IF Propagates(field) THEN Failed(events, ok) ELSE Continue(events)
       IN  IF field_value = None
           THEN Continue(<<>>)
           ELSE \E step \in {"missing", "locate raises", "input raises", "done"},
                   ok \in BOOLEAN :
                   CASE step = "missing" -> Continue(<<locate(FALSE)>>)
                     [] step = "locate raises" -> except(<<locate(TRUE)>>, ok)
                     [] step = "input raises" ->
                           IF field.field_type = "select"
                           THEN Continue(<<locate(FALSE), input(TRUE)>>)
                           ELSE except(<<locate(FALSE), input(TRUE)>>, ok)
                     [] step = "done" -> Continue(<<locate(FALSE), input(FALSE)>>)
    /\ UNCHANGED sub_args

\* the end of the fill without the exit of a dry run
BeforeSubmit_NoDryRun ==
    /\ sub_pc = "FILL"
    /\ sub_idx > Len(sub_args.form.fields)
    /\ \E ok \in BOOLEAN :
          /\ sub_pc' = "SUBMIT"
          /\ sub_log' = sub_log \o Shot("BEFORE_SUBMIT", ok)
          /\ UNCHANGED <<sub_idx, sub_result>>
    /\ UNCHANGED sub_args

\* after the fill: the optional screenshot and the exit of a dry run
BeforeSubmit ==
    /\ sub_pc = "FILL"
    /\ sub_idx > Len(sub_args.form.fields)
    /\ \E ok \in BOOLEAN :
          IF sub_args.dry_run
          THEN Return(Shot("BEFORE_SUBMIT", ok),
                      Outcome(SubmissionStatus.SUCCESS, Some("Dry run completed successfully"),
                              None,
                              IF sub_args.take_screenshot
                              THEN ScreenshotUrl("before_submit", ok) ELSE None))
          ELSE /\ sub_pc' = "SUBMIT"
               /\ sub_log' = sub_log \o Shot("BEFORE_SUBMIT", ok)
               /\ UNCHANGED <<sub_idx, sub_result>>
    /\ UNCHANGED sub_args

\* screenshot_url or after_screenshot_url
ScreenshotOr(ok) ==
    IF ~sub_args.take_screenshot THEN None
    ELSE IF Screenshot("BEFORE_SUBMIT", TRUE) \in Range(sub_log) THEN Some("before_submit")
    ELSE ScreenshotUrl("after_submit", ok)

\* the return of _execute_submission after _submit_form
Submitted(events, status, response, ok) ==
    Return(events \o Shot("AFTER_SUBMIT", ok), Outcome(status, Some(response), None, ScreenshotOr(ok)))

\* _submit_form up to the wait for the page
SubmitForm ==
    /\ sub_pc = "SUBMIT"
    /\ \E step \in {"resolve raises", "no button", "click raises", "wait raises", "done"},
          ok \in BOOLEAN :
          LET resolve(raised) == Event("resolve", "SUBMIT", 0, raised)
              click(raised) == Event("click", "SUBMIT", 0, raised)
              wait(raised) == Event("wait", "SUBMIT", 0, raised)
              on(events) ==
                  /\ sub_pc' = "CLASSIFY"
                  /\ sub_log' = sub_log \o events
                  /\ UNCHANGED <<sub_idx, sub_result>>
          IN  CASE step = "resolve raises" ->
                     Submitted(<<resolve(TRUE)>>, SubmissionStatus.FAILED, "submit error", ok)
                [] step = "no button" ->
                     Submitted(<<resolve(FALSE)>>, SubmissionStatus.FAILED,
                               "submit error: no submit button", ok)
                [] step = "click raises" ->
                     Submitted(<<resolve(FALSE), click(TRUE)>>, SubmissionStatus.FAILED,
                               "submit error", ok)
                [] step = "wait raises" -> on(<<resolve(FALSE), click(FALSE), wait(TRUE)>>)
                [] step = "done" -> on(<<resolve(FALSE), click(FALSE), wait(FALSE)>>)
    /\ UNCHANGED sub_args

\* the texts a page can show after the click
PageContents ==
    {"", "Welcome", "Thank You for your inquiry", "Form submitted", "success",
     "Error: email is required", "Thank you. Fields marked * are required",
     "Submission FAILED", "Unsuccessful: invalid input", "invalid email"}

\* page_content.lower()
ContentLower(s) ==
    CASE s = "Welcome" -> "welcome"
      [] s = "Thank You for your inquiry" -> "thank you for your inquiry"
      [] s = "Form submitted" -> "form submitted"
      [] s = "Error: email is required" -> "error: email is required"
      [] s = "Thank you. Fields marked * are required" ->
            "thank you. fields marked * are required"
      [] s = "Submission FAILED" -> "submission failed"
      [] s = "Unsuccessful: invalid input" -> "unsuccessful: invalid input"
      [] OTHER -> s

\* the ASCII entries of success_patterns and of error_patterns, in order
success_patterns == <<"thank you", "success", "submitted">>

error_patterns == <<"error", "failed", "required", "invalid">>

\* pattern in text, for the patterns above
Contains(text, pattern) ==
    CASE text = "thank you for your inquiry" -> pattern = "thank you"
      [] text = "form submitted" -> pattern = "submitted"
      [] text = "success" -> pattern = "success"
      [] text = "error: email is required" -> pattern \in {"error", "required"}
      [] text = "thank you. fields marked * are required" ->
            pattern \in {"thank you", "required"}
      [] text = "submission failed" -> pattern = "failed"
      [] text = "unsuccessful: invalid input" -> pattern \in {"success", "invalid"}
      [] text = "invalid email" -> pattern = "invalid"
      [] OTHER -> FALSE

\* the first pattern of the list that the text contains, None if none does
FirstPattern(patterns, text) ==
    LET hits == {i \in DOMAIN patterns : Contains(text, patterns[i])}
    IN  IF hits = {} THEN None
        ELSE Some(patterns[CHOOSE i \in hits : \A j \in hits : i <= j])

\* the classification with the error patterns looked at before the URL
determine_submission_result_ErrorFirst(page_content, current_url, original_url) ==
    LET success == FirstPattern(success_patterns, ContentLower(page_content))
        error == FirstPattern(error_patterns, ContentLower(page_content))
    IN  IF success # None
        THEN [status |-> SubmissionStatus.SUCCESS, response |-> "success: " \o success[1]]
        ELSE IF error # None
        THEN [status |-> SubmissionStatus.FAILED, response |-> "error: " \o error[1]]
        ELSE IF current_url # original_url
        THEN [status |-> SubmissionStatus.SUCCESS, response |-> "redirect"]
        ELSE [status |-> SubmissionStatus.SUCCESS, response |-> "undetermined"]

\* _determine_submission_result
determine_submission_result(page_content, current_url, original_url) ==
    LET success == FirstPattern(success_patterns, ContentLower(page_content))
        error == FirstPattern(error_patterns, ContentLower(page_content))
    IN  IF success # None
        THEN [status |-> SubmissionStatus.SUCCESS, response |-> "success: " \o success[1]]
        ELSE IF current_url # original_url
        THEN [status |-> SubmissionStatus.SUCCESS, response |-> "redirect"]
        ELSE IF error # None
        THEN [status |-> SubmissionStatus.FAILED, response |-> "error: " \o error[1]]
        ELSE [status |-> SubmissionStatus.SUCCESS, response |-> "undetermined"]

\* the URLs of the page before and after the click
PageUrls ==
    {"https://example.com/contact", "https://example.com/thanks",
     "https://example.com/contact?sent=1"}

\* the end of _submit_form and of _execute_submission
Classify ==
    /\ sub_pc = "CLASSIFY"
    /\ \E raises \in BOOLEAN, ok \in BOOLEAN :
          LET content == Event("content", "CLASSIFY", 0, raises)
          IN  IF raises
              THEN Submitted(<<content>>, SubmissionStatus.FAILED, "submit error", ok)
              ELSE \E page_content \in PageContents, current_url \in PageUrls :
                      LET result == determine_submission_result(
                                        page_content, current_url, "https://example.com/contact")
                      IN  Submitted(<<content>>, result.status, result.response, ok)
    /\ UNCHANGED sub_args

SubmitFields ==
    {[name |-> "email", label |-> "", field_type |-> "email", selector |-> "#email",
      required |-> TRUE],
     [name |-> "q", label |-> "Content", field_type |-> "textarea",
      selector |-> "[name='q']", required |-> FALSE],
     [name |-> "message", label |-> "", field_type |-> "select",
      selector |-> "[name='message']", required |-> TRUE],
     [name |-> "field_1", label |-> "", field_type |-> "text", selector |-> "#field_1",
      required |-> TRUE]}

SubmitCalls ==
    [op : {"execute_submission"},
     form : [has_recaptcha : BOOLEAN,
             fields : SeqUpTo(SubmitFields, MaxFields),
             submit_button_selector : {None, Some("button[type='submit']")}],
     template_data : {t \in TemplateData : DOMAIN t \in {{}, {"email", "message"}}},
     take_screenshot : BOOLEAN,
     dry_run : BOOLEAN,
     page : [captcha_visible : BOOLEAN]]

InitSubmit ==
    /\ sub_args \in SubmitCalls
    /\ sub_pc = "NAVIGATE"
    /\ sub_idx = 0
    /\ sub_log = <<>>
    /\ sub_result = None
    /\ PolicyIdle /\ ClockIdle /\ BackoffIdle /\ MgrIdle /\ ServiceIdle /\ FlowIdle

NextSubmit ==
    /\ \/ Navigate
       \/ CaptchaCheck
       \/ FillField
       \/ BeforeSubmit
       \/ SubmitForm
       \/ Classify
    /\ UNCHANGED <<policyVars, clockVars, backoffVars, mgrVars, serviceVars, flowVars>>

SpecSubmit == InitSubmit /\ [][NextSubmit]_vars

\* the attempt is over with the given status
Ended(status) == sub_pc = "END" /\ sub_result # None /\ sub_result[1].status = status

\* some operation of these kinds was attempted on the page
Attempted(acts) == \E i \in DOMAIN sub_log : sub_log[i].act \in acts

FillActs == {"locate", "fill", "select_option"}

SubmitActs == {"resolve", "click"}

\* the detection ran and found the CAPTCHA the page shows
CaptchaFound ==
    /\ sub_args.op = "execute_submission"
    /\ sub_args.page.captcha_visible
    /\ Event("detect", "CAPTCHA_CHECK", 0, FALSE) \in Range(sub_log)

\* C17: when the stored form has has_recaptcha and a visible CAPTCHA is
\* found after the navigation, the attempt ends with captcha_required and
\* no field is filled and no submit control clicked, dry run or not.
C17_CaptchaRequired ==
    (sub_args.op = "execute_submission" /\ sub_args.form.has_recaptcha /\ CaptchaFound) =>
        /\ Ended(SubmissionStatus.CAPTCHA_REQUIRED)
        /\ ~Attempted(FillActs)
        /\ ~Attempted(SubmitActs)

\* a real submission of a form with a field that has a value ended at the
\* CAPTCHA that was found
C17_Witness ==
    /\ sub_args.op = "execute_submission"
    /\ sub_args.form.has_recaptcha
    /\ CaptchaFound
    /\ ~sub_args.dry_run
    /\ Len(sub_args.form.fields) >= 1
    /\ map_template_data_to_field(sub_args.form.fields[1], sub_args.template_data) # None
    /\ Ended(SubmissionStatus.CAPTCHA_REQUIRED)

\* C18: whenever the page shows a visible CAPTCHA at submission time,
\* whatever the stored flag, nothing is filled or submitted and an attempt
\* whose navigation succeeded ends with captcha_required.
C18_CaptchaTerminal ==
    (sub_args.op = "execute_submission" /\ sub_args.page.captcha_visible) =>
        /\ ~Attempted(FillActs)
        /\ ~Attempted(SubmitActs)
        /\ (sub_pc = "END" /\ Event("goto", "NAVIGATE", 0, FALSE) \in Range(sub_log)) =>
              Ended(SubmissionStatus.CAPTCHA_REQUIRED)

\* C19: a dry run never resolves or clicks the submit control and never
\* gets past the fill and its screenshot; when neither the navigation nor
\* the fill raised and no CAPTCHA ended the run, the outcome is success.
C19_DryRun ==
    (sub_args.op = "execute_submission" /\ sub_args.dry_run) =>
        /\ ~Attempted(SubmitActs)
        /\ sub_pc \notin {"SUBMIT", "CLASSIFY"}
        /\ \A i \in DOMAIN sub_log :
              sub_log[i].state \in {"NAVIGATE", "CAPTCHA_CHECK", "FILL", "BEFORE_SUBMIT", "FAILED"}
        /\ (/\ sub_pc = "END"
            /\ ~Ended(SubmissionStatus.CAPTCHA_REQUIRED)
            /\ \A i \in DOMAIN sub_log :
                  sub_log[i].state \in {"NAVIGATE", "FILL"} => ~sub_log[i].raised)
              => Ended(SubmissionStatus.SUCCESS)

\* a dry run filled a field, took its screenshot and ended with success
C19_Witness ==
    /\ sub_args.op = "execute_submission"
    /\ sub_args.dry_run
    /\ Attempted({"fill"})
    /\ Screenshot("BEFORE_SUBMIT", TRUE) \in Range(sub_log)
    /\ Ended(SubmissionStatus.SUCCESS)
    /\ sub_result[1].response = Some("Dry run completed successfully")

\* the operations of the five states (the screenshots are not among them)
StateActs == {"goto", "detect", "locate", "fill", "select_option", "resolve", "click", "wait",
              "content"}

\* entry i of the log is an exception after which the attempt ended at once
\* with failed and a narrative
FailedAt(i) ==
    /\ Ended(SubmissionStatus.FAILED)
    /\ sub_result[1].response # None \/ sub_result[1].error_message # None
    /\ \A j \in DOMAIN sub_log : j > i => sub_log[j].act = "screenshot"

\* C20 as claimed: an exception in any state of the attempt leads directly
\* to the outcome failed with a narrative, and the attempt does not go on.
C20_AnyExceptionFails ==
    \A i \in DOMAIN sub_log :
        (sub_log[i].act \in StateActs /\ sub_log[i].raised) => FailedAt(i)

\* the exceptions the code handles where they arise: in the CAPTCHA
\* detection, in the choice of an option of a select box, in the wait after
\* the click, and in the fill of a field that is not required
HandledLocally(e) ==
    /\ e.raised
    /\ \/ e.act \in {"detect", "select_option", "wait"}
       \/ e.act \in {"locate", "fill"} /\ ~sub_args.form.fields[e.field].required

\* C20: a step in which an exception of navigate, fill, submit or classify
\* arises that is not handled where it arises ends the attempt at once with
\* the outcome failed and a narrative; a step whose exceptions are all
\* handled where they arise takes the attempt on to the fill or to the
\* classification.
C20_UnhandledExceptionFails ==
    [][LET new == {i \in DOMAIN sub_log' : i > Len(sub_log)}
           exceptions == {i \in new : sub_log'[i].act \in StateActs /\ sub_log'[i].raised}
           handled == {i \in exceptions : HandledLocally(sub_log'[i])}
       IN  /\ \A i \in exceptions \ handled : FailedAt(i)'
           /\ (exceptions # {} /\ exceptions = handled) =>
                 /\ sub_pc' \in {"FILL", "CLASSIFY"}
                 /\ sub_result' = None]_vars

\* the fill of a required field raised after the CAPTCHA detection had
\* raised and been passed over: the attempt failed with an error message
C20_Witness ==
    /\ Event("detect", "CAPTCHA_CHECK", 0, TRUE) \in Range(sub_log)
    /\ \E i \in DOMAIN sub_log :
          /\ sub_log[i].act = "fill"
          /\ sub_log[i].raised
          /\ sub_args.form.fields[sub_log[i].field].required
    /\ Ended(SubmissionStatus.FAILED)
    /\ sub_result[1].error_message # None


\* the mapper resolves no value for field i of the stored form
Unresolved(i) ==
    map_template_data_to_field(sub_args.form.fields[i], sub_args.template_data) = None

\* the fill loop has gone past field i
Passed(i) == sub_pc \in {"FILL", "SUBMIT", "CLASSIFY", "END"} /\ sub_idx > i

\* C21: once the fill loop has met a required field without a resolved
\* value, the attempt has ended with failed and never reaches the submit
\* step; a field without a value that is not required is passed over with
\* no operation on the page.
C21_RequiredUnresolvedFails ==
    sub_args.op = "execute_submission" =>
        \A i \in DOMAIN sub_args.form.fields :
            (Unresolved(i) /\ Passed(i)) =>
                /\ \A j \in DOMAIN sub_log : sub_log[j].field # i
                /\ sub_args.form.fields[i].required =>
                      /\ Ended(SubmissionStatus.FAILED)
                      /\ ~Attempted(SubmitActs)


(***************************************************************************)
(* FormSubmitter._determine_submission_result as a function of the content *)
(* and the URL of the page after the click and of the URL before it.       *)
(***************************************************************************)
ClassifyCalls ==
    [op : {"determine_submission_result"},
     page_content : PageContents,
     current_url : PageUrls,
     original_url : PageUrls]

InitClassify ==
    /\ svc_call \in ClassifyCalls
    /\ svc_ret = None
    /\ PolicyIdle /\ ClockIdle /\ BackoffIdle /\ MgrIdle /\ SubmitIdle /\ FlowIdle

DetermineSubmissionResult ==
    /\ svc_call.op = "determine_submission_result"
    /\ svc_ret = None
    /\ svc_ret' = Some(determine_submission_result(svc_call.page_content, svc_call.current_url,
                                                   svc_call.original_url))
    /\ UNCHANGED svc_call

NextClassify ==
    DetermineSubmissionResult
        /\ UNCHANGED <<policyVars, clockVars, backoffVars, mgrVars, submitVars, flowVars>>

SpecClassify == InitClassify /\ [][NextClassify]_vars

\* the lowercased content holds one of the phrases
HasPhrase(phrases, page_content) ==
    \E i \in DOMAIN phrases : Contains(ContentLower(page_content), phrases[i])

\* C22: the classification is failed exactly when the content has no
\* success phrase, the URL is the one before the click, and the content
\* has an error phrase; in every other case it is success.
C22_DecisionTable ==
    (svc_call.op = "determine_submission_result" /\ svc_ret # None) =>
        LET failed == /\ ~HasPhrase(success_patterns, svc_call.page_content)
                      /\ svc_call.current_url = svc_call.original_url
                      /\ HasPhrase(error_patterns, svc_call.page_content)
        IN  svc_ret[1].status =
                IF failed THEN SubmissionStatus.FAILED ELSE SubmissionStatus.SUCCESS

\* a page with an error phrase only, reached by a redirect, is a success
C22_Witness ==
    /\ svc_call.op = "determine_submission_result"
    /\ svc_call.page_content = "Error: email is required"
    /\ svc_call.current_url # svc_call.original_url
    /\ svc_ret # None
    /\ svc_ret[1].status = SubmissionStatus.SUCCESS


\* C28: a check at level moderate returns allowed = TRUE whatever the URL,
\* the site policy and the terms of service are, and it accumulates at
\* most one error.
C28_ModerateAlwaysAllowed ==
    (Checked /\ mgr_ret.level = "moderate") =>
        /\ mgr_ret.value.allowed
        /\ Len(mgr_ret.value.errors) <= 1

\* a moderate check of a site whose robots.txt disallows everything and
\* whose terms of service prohibit automation: one error, and allowed
C28_Witness ==
    /\ Checked
    /\ mgr_ret.level = "moderate"
    /\ RobotsWarning \in Range(mgr_ret.value.warnings)
    /\ Len(mgr_ret.value.errors) = 1
    /\ mgr_ret.value.allowed


(***************************************************************************)
(* SpecApi: the module's own manager, used by detection runs through       *)
(* check_compliance and by the two compliance endpoints of the API, which  *)
(* run without a suspension between setting the level and checking.        *)
(***************************************************************************)
\* an endpoint sets the level it was sent and checks the URL
ApiCheck(op, url, request_level) ==
    LET level == IF request_level # None THEN request_level[1] ELSE compliance_level
    IN  \E answer \in PolicyAnswers(url) :
            LET domain == DomainOf(url)
                policies == get_site_policy(site_policies, url, answer[1], answer[2])
                policy == policies[domain]
                backoffs == backoff_for(backoff_strategies, domain)
                backoff_delay == get_delay(backoffs[domain], now, rnd)
                has_tos == policy.terms_of_service_url # None
            IN  \E tos \in TosAnswers(policy) :
                /\ compliance_level' = level
                /\ site_policies' = policies
                /\ fetch_log' = Logged(url, answer[1], answer[2])
                /\ backoff_strategies' = backoffs
                /\ IF DrawsJitter(backoffs[domain], now) THEN rnd' \in JitterDraws ELSE rnd' = rnd
                /\ mgr_ret' = [op |-> op, url |-> url, level |-> level,
                               fetched |-> Fetches(site_policies, url),
                               tos |-> IF has_tos THEN Some(tos) ELSE None,
                               value |-> check_compliance(level, policy, backoff_delay, tos),
                               request_level |-> request_level]
                /\ UNCHANGED <<now, ticks>>

\* POST /check: compliance_level is a level, or null for none
ApiCheckCompliance ==
    \E url \in OriginUrls, request_level \in {None} \cup {Some(l) : l \in Levels} :
        ApiCheck("api_check", url, request_level)

\* POST /batch-check with one URL: compliance_level is always a level
ApiBatchCheckCompliance ==
    \E url \in OriginUrls, level \in Levels : ApiCheck("api_batch_check", url, Some(level))

\* a detection run checks a URL
DetectionCheck == \E url \in OriginUrls : CheckCompliance(url)

NextApi ==
    /\ \/ ApiCheckCompliance
       \/ ApiBatchCheckCompliance
       \/ DetectionCheck
    /\ UNCHANGED <<policyVars, backoffVars, serviceVars, submitVars, flowVars>>

InitApi == PolicyIdle /\ BackoffIdle /\ InitClock /\ MgrIdle /\ ServiceIdle /\ SubmitIdle /\ FlowIdle

SpecApi == InitApi /\ [][NextApi]_vars

\* C30: a check that selects no level, by a detection run or by a request
\* without one, is decided at the level the manager was constructed with,
\* moderate, whatever levels earlier requests selected; a request that
\* selects a level leaves the level of the manager as it was.
C30_LevelNotChangedByOthers ==
    /\ compliance_level = "moderate"
    /\ Checked => mgr_ret.level = "moderate"
    /\ (mgr_ret.op = "api_check" /\ mgr_ret.request_level = None) => mgr_ret.level = "moderate"


(***************************************************************************)
(* SpecConcurrent: detection runs started by start_form_detection run as   *)
(* coroutines of one event loop and share the module's manager.  A run is  *)
(* suspended only at an await (the sleep, the page acquisition, the        *)
(* navigation); check_compliance and record_request_result hold no await   *)
(* and each runs to its end once the run is resumed.                       *)
(***************************************************************************)
Runs == 1..MaxRuns

\* the run checks its URL; allowed, it is suspended in the sleep, the page
\* acquisition and the navigation; not allowed, it raises and its handler
\* is about to record the failure
RunCheck(r) ==
    /\ cr_pc[r].pc = "start"
    /\ CheckCompliance(cr_pc[r].url)
    /\ cr_pc' = [cr_pc EXCEPT ![r].pc = IF mgr_ret'.value.allowed THEN "goto" ELSE "blocked"]

\* the navigation of the run has resolved: the result is recorded
RunRecord(r, success) ==
    /\ cr_pc[r].pc \in IF success THEN {"goto"} ELSE {"goto", "blocked"}
    /\ backoff_strategies' =
           record_request_result(backoff_strategies, cr_pc[r].url, success, now)
    /\ mgr_ret' = MgrRet("record_request_result", cr_pc[r].url, FALSE, None,
                         [success |-> success])
    /\ cr_pc' = [cr_pc EXCEPT ![r].pc = IF success THEN "recorded success"
                                        ELSE "recorded failure"]
    /\ UNCHANGED <<compliance_level, site_policies, fetch_log, clockVars>>

\* the two dictionaries after each origin has been checked once: robots.txt
\* and the root page were empty, nothing has failed yet
CheckedOnce(dict, urls) ==
    [domain \in {DomainOf(u) : u \in urls} |->
        IF dict = "site_policies"
        THEN analyze_site_policy(domain, Response(FALSE, 200, <<>>), Response(FALSE, 200, <<>>))
        ELSE BackoffStrategy(1000, 300000, 2)]

\* the manager has checked the origins before; the log of fetches starts here
InitConcurrent ==
    /\ cr_pc \in [Runs -> [pc : {"start"}, url : Urls]]
    /\ compliance_level = "moderate"
    /\ site_policies = CheckedOnce("site_policies", Urls)
    /\ backoff_strategies = CheckedOnce("backoff_strategies", Urls)
    /\ fetch_log = <<>>
    /\ mgr_ret = [op |-> "init"]
    /\ PolicyIdle /\ BackoffIdle /\ InitClock /\ ServiceIdle /\ SubmitIdle
    /\ PoolIdle /\ TaskIdle /\ DetectIdle

NextConcurrent ==
    /\ \/ \E r \in Runs : RunCheck(r)
       \/ \E r \in Runs : RunRecord(r, FALSE)
       \/ \E r \in Runs : RunRecord(r, TRUE)
       \/ Tick(1, {600}) /\ UNCHANGED <<mgrVars, runVars>>
    /\ UNCHANGED <<policyVars, backoffVars, serviceVars, submitVars, poolVars, taskVars,
                   detectVars>>

SpecConcurrent == InitConcurrent /\ [][NextConcurrent]_vars

\* the runs on the domain that have recorded the given outcome
Recorded(domain, outcome) ==
    {r \in Runs : DomainOf(cr_pc[r].url) = domain /\ cr_pc[r].pc = outcome}

\* C27: as long as no run has recorded a success for a domain, the failure
\* list of the domain has one entry per run that recorded a failure for it,
\* whatever the order in which the runs were resumed; the map keeps one
\* entry per domain.
C27_NoLostUpdate ==
    /\ \A domain \in {DomainOf(u) : u \in Urls} :
          Recorded(domain, "recorded success") = {} =>
              Cardinality(Recorded(domain, "recorded failure")) =
                  Len(backoff_strategies[domain].failure_timestamps)
    /\ DOMAIN backoff_strategies = {DomainOf(u) : u \in Urls}

\* all runs were on one domain, were suspended in their navigations at the
\* same time, and each has recorded a failure
C27_Witness ==
    /\ \A r \in Runs : cr_pc[r].pc = "recorded failure" /\ cr_pc[r].url = cr_pc[1].url
    /\ Len(backoff_strategies[DomainOf(cr_pc[1].url)].failure_timestamps) = MaxRuns
    /\ ticks > 0


(***************************************************************************)
(* FormDetector.detect_forms: one detection run.  The results of the       *)
(* collaborators (the compliance check, the page acquisition, the          *)
(* navigations, the analysis of a page, the save of a form) are drawn at   *)
(* the step that calls them; the database session commits reliably.        *)
(* det_log is the sequence of the calls the run has made.                  *)
(***************************************************************************)
FormDetectionStatus ==
    [NOT_STARTED |-> "not_started", IN_PROGRESS |-> "in_progress",
     COMPLETED |-> "completed", ERROR |-> "error"]

CompanyUrl == "https://example.com"

CandidateUrls == {"https://example.com/contact", "https://example.com/inquiry"}

DetEvent(act, url, value) == [act |-> act, url |-> url, value |-> value]

\* company.form_detection_status = status; db.commit()
SetStatus(company, status) == [company EXCEPT !.form_detection_status = status]

StatusEvent(status) == DetEvent("status", "", status)

\* the handlers of detect_forms: the status becomes ERROR
ErrorStatus_Keep(company) == company

ErrorStatus(company) == SetStatus(company, FormDetectionStatus.ERROR)

\* what happens to one contact link of the loop
LinkOutcomes == {"check raises", "blocked", "load fails", "no form", "save raises", "saved"}

\* the calls of one iteration of the loop over the contact links
analyze_link_LoadBlocked(url, outcome) ==
    CASE outcome = "check raises" ->
            <<DetEvent("check", url, "raises"), DetEvent("record", url, FALSE)>>
      [] outcome = "blocked" ->
            <<DetEvent("check", url, "blocked"), DetEvent("goto", url, "loaded")>>
      [] outcome = "load fails" ->
            <<DetEvent("check", url, "allowed"), DetEvent("goto", url, "failed")>>
      [] outcome = "no form" ->
            <<DetEvent("check", url, "allowed"), DetEvent("goto", url, "loaded")>>
      [] outcome = "save raises" ->
            <<DetEvent("check", url, "allowed"), DetEvent("goto", url, "loaded"),
              DetEvent("save", url, "raises"), DetEvent("record", url, FALSE)>>
      [] outcome = "saved" ->
            <<DetEvent("check", url, "allowed"), DetEvent("goto", url, "loaded"),
              DetEvent("save", url, "saved"), DetEvent("record", url, TRUE)>>

analyze_link(url, outcome) ==
    CASE outcome = "check raises" ->
            \* the handler of the iteration records a failure
            <<DetEvent("check", url, "raises"), DetEvent("record", url, FALSE)>>
      [] outcome = "blocked" ->
            \* continue
            <<DetEvent("check", url, "blocked")>>
      [] outcome = "load fails" ->
            \* _analyze_form_page catches the failure of goto and returns None
            <<DetEvent("check", url, "allowed"), DetEvent("goto", url, "failed")>>
      [] outcome = "no form" ->
            \* _analyze_form_page returns None: nothing saved, nothing recorded
            <<DetEvent("check", url, "allowed"), DetEvent("goto", url, "loaded")>>
      [] outcome = "save raises" ->
            <<DetEvent("check", url, "allowed"), DetEvent("goto", url, "loaded"),
              DetEvent("save", url, "raises"), DetEvent("record", url, FALSE)>>
      [] outcome = "saved" ->
            <<DetEvent("check", url, "allowed"), DetEvent("goto", url, "loaded"),
              DetEvent("save", url, "saved"), DetEvent("record", url, TRUE)>>

\* the calls detect_forms(url, company_id, db) of the runs: the company is
\* in the database or not, and the root page yields these contact links
DetectCalls ==
    [op : {"detect_forms"}, url : {CompanyUrl}, company_exists : BOOLEAN,
     links : UNION {[1..n -> CandidateUrls] : n \in 0..MaxCandidates}]

\* the status the company was left with by what came before the call
InitDetect ==
    /\ det_call \in DetectCalls
    /\ det_pc = "START"
    /\ det_idx = 0
    /\ det_log = <<>>
    /\ det_company \in [form_detection_status : {FormDetectionStatus.NOT_STARTED,
                                                  FormDetectionStatus.COMPLETED,
                                                  FormDetectionStatus.ERROR},
                        detected_forms_count : {0}]
    /\ det_forms = <<>>
    /\ PolicyIdle /\ BackoffIdle /\ InitClock /\ MgrIdle /\ ServiceIdle /\ SubmitIdle
    /\ PoolIdle /\ TaskIdle /\ RunIdle

\* the run has raised out of one of the two handlers of detect_forms
DetRaise(events, recorded) ==
    /\ det_company' = ErrorStatus(det_company)
    /\ det_log' = det_log \o events
                    \o <<StatusEvent(det_company'.form_detection_status)>>
                    \o IF recorded THEN <<DetEvent("record", det_call.url, FALSE)>> ELSE <<>>
    /\ det_pc' = "RAISED"

\* the lookup of the company, and the status IN_PROGRESS
DetStart ==
    /\ det_pc = "START"
    /\ IF det_call.company_exists
       THEN /\ det_company' = SetStatus(det_company, FormDetectionStatus.IN_PROGRESS)
            /\ det_log' = det_log \o <<StatusEvent(FormDetectionStatus.IN_PROGRESS)>>
            /\ det_pc' = "CHECK"
       ELSE /\ det_pc' = "RAISED"
            /\ UNCHANGED <<det_company, det_log>>
    /\ UNCHANGED <<det_call, det_idx, det_forms>>

\* the compliance check of the company URL; not allowed, the status is set
\* to ERROR and the exception raised passes the handler, which sets it again
DetCheckRoot ==
    /\ det_pc = "CHECK"
    /\ \E result \in {"allowed", "blocked", "raises"} :
          LET check == DetEvent("check", det_call.url, result)
          IN  CASE result = "allowed" ->
                      /\ det_log' = det_log \o <<check>>
                      /\ det_pc' = "ACQUIRE"
                      /\ UNCHANGED det_company
                [] result = "blocked" ->
                      DetRaise(<<check, StatusEvent(FormDetectionStatus.ERROR)>>, FALSE)
                [] result = "raises" ->
                      DetRaise(<<check>>, FALSE)
    /\ UNCHANGED <<det_call, det_idx, det_forms>>

\* async with browser_pool.get_page() as page, and the headers of the page
DetAcquire ==
    /\ det_pc = "ACQUIRE"
    /\ \E result \in {"acquired", "get_page raises", "headers raise"} :
          CASE result = "acquired" ->
                  /\ det_log' = det_log \o <<DetEvent("acquire", "", "acquired")>>
                  /\ det_pc' = "GOTO"
                  /\ UNCHANGED det_company
            [] result = "get_page raises" ->
                  DetRaise(<<DetEvent("acquire", "", "raises")>>, TRUE)
            [] result = "headers raise" ->
                  DetRaise(<<DetEvent("acquire", "", "acquired")>>, TRUE)
    /\ UNCHANGED <<det_call, det_idx, det_forms>>

\* page.goto(url), the record of its success, and _find_contact_links
DetGotoRoot ==
    /\ det_pc = "GOTO"
    /\ \E loaded \in BOOLEAN :
          IF loaded
          THEN /\ det_log' = det_log \o <<DetEvent("goto", det_call.url, "loaded"),
                                          DetEvent("record", det_call.url, TRUE)>>
               /\ det_pc' = "LINKS"
               /\ det_idx' = 1
               /\ UNCHANGED det_company
          ELSE /\ DetRaise(<<DetEvent("goto", det_call.url, "failed")>>, TRUE)
               /\ UNCHANGED det_idx
    /\ UNCHANGED <<det_call, det_forms>>

\* one iteration of the loop over the contact links
DetLink ==
    /\ det_pc = "LINKS"
    /\ det_idx <= Len(det_call.links)
    /\ \E outcome \in LinkOutcomes :
          /\ det_log' = det_log \o analyze_link(det_call.links[det_idx], outcome)
          /\ det_forms' = IF outcome = "saved"
                          THEN Append(det_forms, det_call.links[det_idx])
                          ELSE det_forms
    /\ det_idx' = det_idx + 1
    /\ UNCHANGED <<det_call, det_pc, det_company>>

\* after the loop: COMPLETED, the number of forms, return forms
DetComplete ==
    /\ det_pc = "LINKS"
    /\ det_idx > Len(det_call.links)
    /\ det_company' = [SetStatus(det_company, FormDetectionStatus.COMPLETED)
                          EXCEPT !.detected_forms_count = Len(det_forms)]
    /\ det_log' = det_log \o <<StatusEvent(FormDetectionStatus.COMPLETED)>>
    /\ det_pc' = "RETURNED"
    /\ UNCHANGED <<det_call, det_idx, det_forms>>

NextDetect ==
    /\ \/ DetStart
       \/ DetCheckRoot
       \/ DetAcquire
       \/ DetGotoRoot
       \/ DetLink
       \/ DetComplete
    /\ UNCHANGED <<policyVars, backoffVars, clockVars, mgrVars, serviceVars, submitVars,
                   poolVars, taskVars, runVars>>

SpecDetect == InitDetect /\ [][NextDetect]_vars

DetEnded == det_pc \in {"RETURNED", "RAISED"}

\* the positions of the log with the given call
DetAt(act) == {i \in DOMAIN det_log : det_log[i].act = act}

\* C25: every navigation of a run is to a URL whose latest compliance check
\* in the run returned allowed; after a check of the company URL that was
\* not allowed the run has raised without acquiring or loading a page; a
\* candidate that was not allowed is not loaded before it is checked again.
C25_CheckedBeforeFetch ==
    /\ \A j \in DetAt("goto") :
          \E i \in DetAt("check") :
             /\ i < j
             /\ det_log[i].url = det_log[j].url
             /\ det_log[i].value = "allowed"
             /\ \A k \in DetAt("check") : det_log[k].url = det_log[j].url => ~(i < k /\ k < j)
    /\ \A i \in DetAt("check") :
          (det_log[i].url = det_call.url /\ det_log[i].value # "allowed") =>
             /\ det_pc = "RAISED"
             /\ DetAt("acquire") = {}
             /\ DetAt("goto") = {}
             /\ det_company.form_detection_status = FormDetectionStatus.ERROR

\* the root was allowed and loaded, one candidate was blocked and the next
\* one allowed and loaded
C25_Witness ==
    /\ det_pc = "RETURNED"
    /\ \E i, j \in DetAt("check") :
          /\ i < j
          /\ det_log[i].value = "blocked"
          /\ det_log[j].value = "allowed"
          /\ j + 1 \in DetAt("goto")
          /\ det_log[i].url = det_log[j].url

\* C26: every navigation is followed, before the next navigation and before
\* the run ends, by a record for its URL whose flag tells whether it loaded.
C26_FetchRecorded ==
    \A j \in DetAt("goto") :
       LET later == {k \in DetAt("goto") : k > j}
           next == IF later = {} THEN Len(det_log) + 1
                   ELSE CHOOSE k \in later : \A m \in later : k <= m
       IN  (later # {} \/ DetEnded) =>
              \E k \in DetAt("record") :
                 /\ j < k /\ k < next
                 /\ det_log[k].url = det_log[j].url
                 /\ det_log[k].value = (det_log[j].value = "loaded")
                 /\ \A m \in DetAt("record") :
                       (j < m /\ m < next /\ det_log[m].url = det_log[j].url)
                          => det_log[m].value = det_log[k].value

\* C29: a call for a company of the database sets IN_PROGRESS first; once
\* it has returned the status is COMPLETED and the count is the number of
\* forms returned; once it has raised the status is ERROR; no candidate has
\* been looked at in a run that raised.
C29_StatusFollowsRun ==
    det_call.company_exists =>
       /\ det_pc # "START" => det_log[1] = StatusEvent(FormDetectionStatus.IN_PROGRESS)
       /\ det_pc = "RETURNED" =>
             /\ det_company.form_detection_status = FormDetectionStatus.COMPLETED
             /\ det_company.detected_forms_count = Len(det_forms)
       /\ det_pc = "RAISED" =>
             /\ det_company.form_detection_status = FormDetectionStatus.ERROR
             /\ \A i \in DOMAIN det_log : det_log[i].url \notin CandidateUrls
       /\ DetEnded => det_company.form_detection_status # FormDetectionStatus.IN_PROGRESS
       /\ (det_pc = "LINKS" /\ det_idx > 1) =>
             det_company.form_detection_status = FormDetectionStatus.IN_PROGRESS

\* a run that returned one form, after a candidate whose save raised
C29_Witness ==
    /\ det_pc = "RETURNED"
    /\ Len(det_forms) = 1
    /\ \E i \in DetAt("save") : det_log[i].value = "raises"
    /\ det_company.form_detection_status = FormDetectionStatus.COMPLETED


(***************************************************************************)
(* BrowserPoolManager.get_page, used by concurrent runs of one event loop  *)
(* on an initialized pool.  A run is suspended at the awaits: the lock,    *)
(* new_context, new_page, the body of the scope, page.close and            *)
(* context.close.  The context of a run is named by the run; closing a     *)
(* context closes the pages that belong to it.                             *)
(***************************************************************************)
PoolRun(pc, browser, context, page, exit, errors) ==
    [pc |-> pc, browser |-> browser, context |-> context, page |-> page, exit |-> exit,
     errors |-> errors]

\* min(self.browsers, key=lambda b: len(b['contexts'])): the first of the
\* browsers with the fewest contexts
least_used(browsers) ==
    CHOOSE b \in DOMAIN browsers :
        /\ \A o \in DOMAIN browsers : Len(browsers[b].contexts) <= Len(browsers[o].contexts)
        /\ \A o \in DOMAIN browsers :
              Len(browsers[o].contexts) = Len(browsers[b].contexts) => b <= o

\* browser_info['contexts'].append(context)
append_context(browsers, b, context) ==
    [browsers EXCEPT ![b].contexts = Append(@, context)]

\* if browser_info and context in browser_info['contexts']: remove(context)
remove_context_Keep(browsers, b, context) == browsers

remove_context(browsers, b, context) ==
    [browsers EXCEPT ![b].contexts = SelectSeq(@, LAMBDA c : c # context)]

\* the runs that use the pool
Users == 1..MaxUsers

\* initialize() has created the browsers; no run has entered get_page
InitPool ==
    /\ bp_lock = 0
    /\ bp_browsers = [b \in 1..MaxBrowsers |-> [contexts |-> <<>>]]
    /\ bp_runs = [r \in Users |-> PoolRun("start", 0, "none", "none", "none", {})]
    /\ PolicyIdle /\ BackoffIdle /\ InitClock /\ MgrIdle /\ ServiceIdle /\ SubmitIdle
    /\ TaskIdle /\ DetectIdle /\ RunIdle

\* async with self._lock, and the choice of the browser
PoolLock(r) ==
    /\ bp_runs[r].pc = "start"
    /\ bp_lock = 0
    /\ bp_lock' = r
    /\ bp_runs' = [bp_runs EXCEPT ![r].pc = "new_context",
                                  ![r].browser = least_used(bp_browsers)]
    /\ UNCHANGED bp_browsers

\* await browser.new_context(...): raising, the lock is released and the
\* cleanup finds neither a page nor a context
PoolNewContext(r) ==
    /\ bp_runs[r].pc = "new_context"
    /\ \E ok \in BOOLEAN :
          IF ok
          THEN /\ bp_runs' = [bp_runs EXCEPT ![r].pc = "new_page", ![r].context = "open"]
               /\ UNCHANGED bp_lock
          ELSE /\ bp_runs' = [bp_runs EXCEPT ![r].pc = "done", ![r].exit = "not acquired"]
               /\ bp_lock' = 0
    /\ UNCHANGED bp_browsers

\* await context.new_page(): the context is tracked, the lock released and
\* the page yielded; raising, the cleanup closes the context
PoolNewPage(r) ==
    /\ bp_runs[r].pc = "new_page"
    /\ \E ok \in BOOLEAN :
          IF ok
          THEN /\ bp_runs' = [bp_runs EXCEPT ![r].pc = "body", ![r].page = "open"]
               /\ bp_browsers' = append_context(bp_browsers, bp_runs[r].browser, r)
          ELSE /\ bp_runs' = [bp_runs EXCEPT ![r].pc = "close_context",
                                             ![r].exit = "not acquired"]
               /\ UNCHANGED bp_browsers
    /\ bp_lock' = 0

\* the body of the scope returns or raises
PoolBody(r) ==
    /\ bp_runs[r].pc = "body"
    /\ \E exit \in {"returned", "raised"} :
          bp_runs' = [bp_runs EXCEPT ![r].pc = "close_page", ![r].exit = exit]
    /\ UNCHANGED <<bp_lock, bp_browsers>>

\* await page.close(): a failure is logged
PoolClosePage(r) ==
    /\ bp_runs[r].pc = "close_page"
    /\ \E ok \in BOOLEAN :
          bp_runs' = [bp_runs EXCEPT
                         ![r].pc = "close_context",
                         ![r].page = IF ok THEN "closed" ELSE @,
                         ![r].errors = IF ok THEN @ ELSE @ \cup {"page.close"}]
    /\ UNCHANGED <<bp_lock, bp_browsers>>

\* await context.close(): a failure is logged; then the context is removed
\* from the list of its browser
PoolCloseContext(r) ==
    /\ bp_runs[r].pc = "close_context"
    /\ \E ok \in BOOLEAN :
          bp_runs' = [bp_runs EXCEPT
                         ![r].pc = "done",
                         ![r].context = IF ok THEN "closed" ELSE @,
                         ![r].page = IF ok /\ @ = "open" THEN "closed" ELSE @,
                         ![r].errors = IF ok THEN @ ELSE @ \cup {"context.close"}]
    /\ bp_browsers' = remove_context(bp_browsers, bp_runs[r].browser, r)
    /\ UNCHANGED bp_lock

NextPool ==
    /\ \/ \E r \in Users : PoolLock(r)
       \/ \E r \in Users : PoolNewContext(r)
       \/ \E r \in Users : PoolNewPage(r)
       \/ \E r \in Users : PoolBody(r)
       \/ \E r \in Users : PoolClosePage(r)
       \/ \E r \in Users : PoolCloseContext(r)
    /\ UNCHANGED <<policyVars, backoffVars, clockVars, mgrVars, serviceVars, submitVars,
                   taskVars, detectVars, runVars>>

SpecPool == InitPool /\ [][NextPool]_vars

\* the contexts the browsers of the pool track
Tracked == UNION {{bp_browsers[b].contexts[i] : i \in DOMAIN bp_browsers[b].contexts} :
                     b \in DOMAIN bp_browsers}

\* the runs whose scope is open: from the yield of the page to the end of
\* the cleanup
ScopeOpen == {r \in Users : bp_runs[r].pc \in {"body", "close_page", "close_context"}
                           /\ bp_runs[r].exit # "not acquired"}

\* C23: once a run has left get_page, by a return of the body, by an
\* exception of the body or with a failure of page.close, its context is
\* not tracked, and its page and context are closed unless context.close
\* itself failed; only contexts of open scopes are tracked, so the pool
\* tracks none when no scope is open.
C23_ScopedRelease ==
    /\ \A r \in Users :
          bp_runs[r].pc = "done" =>
             /\ r \notin Tracked
             /\ "context.close" \notin bp_runs[r].errors =>
                   /\ bp_runs[r].context # "open"
                   /\ bp_runs[r].page # "open"
    /\ Tracked \subseteq ScopeOpen
    /\ ScopeOpen = {} => \A b \in DOMAIN bp_browsers : bp_browsers[b].contexts = <<>>

\* every run has ended; two scopes were open at the same time (the second
\* was given another browser); one run left by an exception and with a
\* failure of page.close, another by a return
C23_Witness ==
    /\ \A r \in Users : bp_runs[r].pc = "done"
    /\ \E r, o \in Users :
          /\ bp_runs[r].exit = "raised"
          /\ bp_runs[r].errors = {"page.close"}
          /\ bp_runs[r].page = "closed"
          /\ bp_runs[o].exit = "returned"
          /\ bp_runs[o].browser # bp_runs[r].browser


(***************************************************************************)
(* submit_form_task and retry_failed_submissions.  task_queue holds every  *)
(* invocation of submit_form_task that was scheduled, with what scheduled  *)
(* it; db_submissions holds the rows of the submissions table.  An         *)
(* execution of a task is one step.                                        *)
(***************************************************************************)
\* Task.max_retries
max_retries == 3

FormIds == {1}

Task(form_id, retries, cause) ==
    [form_id |-> form_id, retries |-> retries, cause |-> cause, state |-> "queued",
     outcome |-> "none"]

\* what scheduled an invocation: a request of the API, self.retry() of
\* the invocation of that position, or retry_failed_submissions for the row
\* of that position
Cause(kind, of) == [kind |-> kind, of |-> of]

Submission(form_id, status) == [form_id |-> form_id, status |-> status]

\* what an execution of submit_form does: it returns the outcome of the
\* attempt, or it raises before the row is created (the form is not found),
\* or it raises after the row was created
Executions ==
    {SubmissionStatus.SUCCESS, SubmissionStatus.FAILED, SubmissionStatus.CAPTCHA_REQUIRED,
     "raises without row", "raises", "raises CAPTCHA"}

\* the rows submit_form leaves
submit_form(rows, form_id, execution) ==
    CASE execution \in {SubmissionStatus.SUCCESS, SubmissionStatus.FAILED,
                        SubmissionStatus.CAPTCHA_REQUIRED} ->
            Append(rows, Submission(form_id, execution))
      [] execution \in {"raises", "raises CAPTCHA"} ->
            Append(rows, Submission(form_id, SubmissionStatus.FAILED))
      [] OTHER -> rows

\* the handler of submit_form_task retries
retried(execution, retries) ==
    /\ execution \in {"raises without row", "raises"}
    /\ retries < max_retries

\* the rows retry_failed_submissions selects; recent are the rows that are
\* not older than max_age_hours
failed_submissions_NotSuccess(rows, recent) ==
    {i \in recent : rows[i].status # SubmissionStatus.SUCCESS}

failed_submissions(rows, recent) ==
    {i \in recent : rows[i].status = SubmissionStatus.FAILED}

RECURSIVE Scheduled(_, _, _)
\* apply_async for the selected rows, in the order of the query
Scheduled(queue, rows, selected) ==
    IF selected = {} THEN queue
    ELSE LET i == CHOOSE m \in selected : \A o \in selected : m <= o
         IN  Scheduled(Append(queue, Task(rows[i].form_id, 0, Cause("retry_failed_submissions", i))),
                       rows, selected \ {i})

InitTasks ==
    /\ db_submissions = <<>>
    /\ task_queue = <<>>
    /\ PolicyIdle /\ BackoffIdle /\ InitClock /\ MgrIdle /\ ServiceIdle /\ SubmitIdle
    /\ PoolIdle /\ DetectIdle /\ RunIdle

\* the API schedules a submission
ApiSubmit ==
    /\ Len(task_queue) < MaxTasks
    /\ \E form_id \in FormIds :
          task_queue' = Append(task_queue, Task(form_id, 0, Cause("api", 0)))
    /\ UNCHANGED db_submissions

\* a worker executes a scheduled invocation of submit_form_task
SubmitFormTask ==
    \E t \in DOMAIN task_queue : \E execution \in Executions :
       /\ task_queue[t].state = "queued"
       /\ retried(execution, task_queue[t].retries) => Len(task_queue) < MaxTasks
       /\ db_submissions' = submit_form(db_submissions, task_queue[t].form_id, execution)
       /\ LET done == [task_queue EXCEPT ![t].state = "done", ![t].outcome = execution]
          IN  task_queue' =
                 IF retried(execution, task_queue[t].retries)
                 THEN Append(done, Task(task_queue[t].form_id, task_queue[t].retries + 1,
                                        Cause("retry", t)))
                 ELSE done

\* retry_failed_submissions(), when the latest rows, from some row on, are
\* not older than max_age_hours
RetryFailedSubmissions ==
    \E first \in 1..(Len(db_submissions) + 1) :
       LET selected == failed_submissions(db_submissions, first..Len(db_submissions))
       IN  /\ Len(task_queue) + Cardinality(selected) <= MaxTasks
           /\ task_queue' = Scheduled(task_queue, db_submissions, selected)
           /\ UNCHANGED db_submissions

NextTasks ==
    /\ \/ ApiSubmit
       \/ SubmitFormTask
       \/ RetryFailedSubmissions
    /\ UNCHANGED <<policyVars, backoffVars, clockVars, mgrVars, serviceVars, submitVars,
                   poolVars, detectVars, runVars>>

SpecTasks == InitTasks /\ [][NextTasks]_vars

\* C24: no invocation of submit_form_task was scheduled by the retry of an
\* execution that ended with captcha_required (or raised with CAPTCHA in its
\* message), and none was scheduled by retry_failed_submissions for a row
\* whose status is captcha_required.
C24_CaptchaNeverRetried ==
    \A t \in DOMAIN task_queue :
       /\ task_queue[t].cause.kind = "retry" =>
             task_queue[task_queue[t].cause.of].outcome
                \notin {SubmissionStatus.CAPTCHA_REQUIRED, "raises CAPTCHA"}
       /\ task_queue[t].cause.kind = "retry_failed_submissions" =>
             db_submissions[task_queue[t].cause.of].status # SubmissionStatus.CAPTCHA_REQUIRED

\* an execution ended with captcha_required and is done; a later execution
\* raised and was retried; retry_failed_submissions has run after both rows
\* were written
C24_Witness ==
    \E c, f \in DOMAIN db_submissions :
       /\ c < f
       /\ db_submissions[c].status = SubmissionStatus.CAPTCHA_REQUIRED
       /\ db_submissions[f].status = SubmissionStatus.FAILED
       /\ \E t \in DOMAIN task_queue : task_queue[t].cause = Cause("retry_failed_submissions", f)
       /\ \E t \in DOMAIN task_queue : task_queue[t].cause.kind = "retry"
       /\ \E t \in DOMAIN task_queue : task_queue[t].outcome = SubmissionStatus.CAPTCHA_REQUIRED

====
